---- MODULE Spec2Model ----
(***************************************************************************)
(* Subscription & credit-ledger engine of the bot-backend repository:      *)
(* SubscriptionService (confirmPayment, cancelSubscription,                *)
(* getSubscriptionDetails, consumeCredits, renewDueSubscriptions) and the   *)
(* user lifecycle (setupNewUser, deleteUser) running as concurrent request *)
(* handlers against one relational store.                                  *)
(*                                                                         *)
(* Every `await prisma...` of a handler that reads or writes rows other    *)
(* handlers change is one step; a prisma.$transaction body is split into   *)
(* its reads (each sees what is committed when it runs: read committed)    *)
(* and its writes, which become visible together at commit or not at all.  *)
(* Money is counted in thousandths of a dollar, time in clock ticks.       *)
(***************************************************************************)
EXTENDS Integers, Sequences, FiniteSets, TLC

VARIABLES
  db,      \* the store: one field per table
  now,     \* the wall clock (new Date()), in ticks
  calls    \* the service calls started so far, each with its locals and position

vars == <<db, now, calls>>

----------------------------------------------------------------------------
(* Bounds of the model *)

MaxCalls == 2        \* service calls started in one behaviour of the whole service
MaxPayCalls == 2     \* ... of the payment scenario
MaxUsageCalls == 3   \* ... of the usage scenario
MaxRenewCalls == 2   \* ... of the renewal scenario
MaxLedgerCalls == 3  \* ... of the ledger scenario
MaxCancelCalls == 3  \* ... of the cancellation scenario
MaxDuplicateCalls == 3 \* ... of the duplicate-delivery scenario
MaxSignupCalls == 3  \* ... of the signup scenario
MaxDeleteCalls == 3  \* ... of the deletion scenario
MaxDetailsCalls == 3 \* ... of the details scenario
MaxEarlyCalls == 3 \* ... of the early-renewal scenario
MaxExpiredCalls == 3 \* ... of the expiry scenario
MaxSequentialCalls == 4 \* ... of the one-at-a-time scenario
MaxAmountsCalls == 3 \* ... of the amounts scenario
MaxDailyCalls == 3 \* ... of the daily-quota scenario
MaxNotFoundCalls == 3 \* ... of the not-found scenario
MaxNow == 2          \* last clock tick
TicksPerDay == 2     \* clock ticks in one calendar day
DaysPerMonth == 2    \* calendar days in one month

----------------------------------------------------------------------------
(* Reference data *)

\* User rows at the start: u1 has no referrer, u2 signed up with u1's
\* reference code.
Users == {"u1", "u2"}

\* Identities that sign up: one that has a User row already, one that has not.
SignupIdentities == {"u2", "u3"}

\* referredById of a signup request: none, u1's reference code (a user's code
\* is written as the user's id), or a code of no user.
ReferenceIds == {"none", "u1", "AURA-REF-unknown"}

ReferredBy(u) == IF u = "u2" THEN "u1" ELSE "none"

\* The plan catalog (prices in thousandths of a dollar).
PlanIds == {"Free", "Pro", "Premium"}

Plan(p) ==
  CASE p = "Free" ->
         [id |-> "Free", priceMonthly |-> 0, priceYearly |-> 0,
          dailyCredits |-> 0, monthlyCredits |-> 2, isDaily |-> FALSE]
    [] p = "Pro" ->
         [id |-> "Pro", priceMonthly |-> 9990, priceYearly |-> 99990,
          dailyCredits |-> 25, monthlyCredits |-> 0, isDaily |-> TRUE]
    [] p = "Premium" ->
         [id |-> "Premium", priceMonthly |-> 19990, priceYearly |-> 199990,
          dailyCredits |-> 0, monthlyCredits |-> 1000, isDaily |-> FALSE]

\* planCode of a confirmation: a plan's id or name, or the name of no plan.
PlanCodes == PlanIds \cup {"Gold"}

\* plan.findFirst({ where: { OR: [{ id: planCode }, { name: planCode }] } }):
\* the plan's id, "none" for null (a plan's id is written as its name)
FindPlanOrFree(planCode) == IF planCode \in PlanIds THEN planCode ELSE "Free"

FindPlan(planCode) == IF planCode \in PlanIds THEN planCode ELSE "none"

BillingCycles == {"monthly", "yearly"}

\* Amounts a payment notification carries: nothing, or the Pro monthly price.
Amounts == {0, Plan("Pro").priceMonthly}

\* External payment identifiers (Stripe payment intent ids).
ExternalPaymentIds == {"pi_1", "pi_2"}

\* Credits a usage request asks for (the controller rejects credits <= 0).
\* creditsToConsume of the daily-quota scenario: one credit, a whole day's quota
DailyAmounts == {1, 25}

ConsumeAmounts == {1, 10, 20}

----------------------------------------------------------------------------
(* Time *)

Month == DaysPerMonth * TicksPerDay

\* Date.setMonth(getMonth() + k): k calendar months later.
AddMonths(t, k) == t + k * Month

\* today.setHours(0, 0, 0, 0): the start of t's calendar day.
StartOfDay(t) == (t \div TicksPerDay) * TicksPerDay

\* months of one billing period
PeriodMonthsAlwaysOne(billingCycle) == 1

PeriodMonths(billingCycle) == IF billingCycle = "yearly" THEN 12 ELSE 1

\* Users signed up one or two months before the clock starts.
SignupAts == {0 - Month, 0 - 2 * Month}

\* paidAt of a confirmation: the current time (the webhook, the default) or a
\* client-supplied earlier date.
PaidAts == {now, now - 2 * Month}

----------------------------------------------------------------------------
(* The store *)

RECURSIVE SumAmounts(_)
SumAmounts(entries) ==
  IF entries = << >> THEN 0
  ELSE Head(entries).amount + SumAmounts(Tail(entries))

\* creditLedger.aggregate({ where: { userId }, _sum: { amount } }) || 0
CreditSum(d, u) ==
  SumAmounts(SelectSeq(d.creditLedger, LAMBDA e : e.userId = u))

\* ids of the user's subscriptions with status 'active'
ActiveSubscriptions(d, u) ==
  {id \in DOMAIN d.subscriptions :
     /\ d.subscriptions[id].userId = u
     /\ d.subscriptions[id].status = "active"}

\* subscription.findFirst({ where: { userId, status: 'active' } }): the ids it
\* may return; 0 stands for null. No orderBy: any matching row can be first.
FindFirstActiveOfAnyUser(d, u) ==
  IF \A id \in DOMAIN d.subscriptions : d.subscriptions[id].status # "active"
  THEN {0}
  ELSE {id \in DOMAIN d.subscriptions : d.subscriptions[id].status = "active"}

FindFirstActive(d, u) ==
  IF ActiveSubscriptions(d, u) = {} THEN {0} ELSE ActiveSubscriptions(d, u)

\* dailyUsage.findFirst({ where: { userId, date } })?.usageCount || 0
UsageCount(d, u, date) ==
  IF \E r \in d.dailyUsage : r.userId = u /\ r.date = date
  THEN (CHOOSE r \in d.dailyUsage : r.userId = u /\ r.date = date).usageCount
  ELSE 0

\* Result of one statement of a transaction body: the working copy of the
\* store and whether the statement succeeded.
Ok(d) == [ok |-> TRUE, db |-> d]
Err(d) == [ok |-> FALSE, db |-> d]

\* Statement k of a transaction body runs only if none threw before it (r is
\* the result so far) and the store does not fail on it: the environment makes
\* statement failAt fail with a store error (timeout, lost connection).
Runs(r, k, failAt) == r.ok /\ failAt # k

\* prisma.$transaction(body) without rollback: what a body's writes leave when
\* they are not rolled back.
TransactionNoRollback(d, r) == r.db

\* prisma.$transaction(body): the body's writes if it returned, nothing if it threw.
Transaction(d, r) == IF r.ok THEN r.db ELSE d

\* A deleted subscription: ids are never reused, its place stays taken.
DeletedSubscription ==
  [userId |-> "none", planId |-> "none", billingCycle |-> "none",
   status |-> "deleted", currentPeriodStart |-> 0, currentPeriodEnd |-> 0,
   cancelAtPeriodEnd |-> FALSE, canceledAt |-> {}]

\* ids of the subscription rows there are
SubscriptionIds(d) ==
  {id \in DOMAIN d.subscriptions : d.subscriptions[id] # DeletedSubscription}

\* subscription.create({ data }): throws when userId is the id of no user
\* (foreign key).
SubscriptionCreate(d, row) ==
  IF row.userId \in DOMAIN d.users
  THEN Ok([d EXCEPT !.subscriptions = Append(@, row)])
  ELSE Err(d)

\* subscription.update({ where: { id }, data }): throws when no row has the id.
SubscriptionUpdate(d, id, data) ==
  IF id \in SubscriptionIds(d)
  THEN Ok([d EXCEPT !.subscriptions[id] =
             [f \in DOMAIN @ |-> IF f \in DOMAIN data THEN data[f] ELSE @[f]]])
  ELSE Err(d)

\* creditLedger.create({ data }): a new row
CreditLedgerCreateNetted(d, entry) ==
  IF \E k \in DOMAIN d.creditLedger :
       d.creditLedger[k].userId = entry.userId /\ d.creditLedger[k].type = entry.type
  THEN LET k == CHOOSE k \in DOMAIN d.creditLedger :
                  d.creditLedger[k].userId = entry.userId
                  /\ d.creditLedger[k].type = entry.type
       IN  Ok([d EXCEPT !.creditLedger[k].amount = @ + entry.amount])
  ELSE Ok([d EXCEPT !.creditLedger = Append(@, entry)])

\* throws when subscriptionId is the id of no subscription (foreign key)
CreditLedgerCreate(d, entry) ==
  IF entry.subscriptionId \in SubscriptionIds(d)
  THEN Ok([d EXCEPT !.creditLedger = Append(@, entry)])
  ELSE Err(d)

\* billingHistory.create({ data }): a new row
BillingHistoryCreateOnce(d, row) ==
  IF \E k \in DOMAIN d.billingHistory :
       d.billingHistory[k].externalPaymentId = row.externalPaymentId
  THEN Ok(d)
  ELSE Ok([d EXCEPT !.billingHistory = Append(@, row)])

\* throws when subscriptionId is the id of no subscription (foreign key)
BillingHistoryCreate(d, row) ==
  IF row.subscriptionId \in SubscriptionIds(d)
  THEN Ok([d EXCEPT !.billingHistory = Append(@, row)])
  ELSE Err(d)

\* referralStats.update({ where: { userId }, data: { ...increment } }): throws
\* when the user has no ReferralStats row.
ReferralStatsIncrement(d, u, subscribers, earning) ==
  IF u \in DOMAIN d.referralStats
  THEN Ok([d EXCEPT !.referralStats[u] =
             [@ EXCEPT !.totalPaidSubscribers = @ + subscribers,
                       !.totalEarning = @ + earning]])
  ELSE Err(d)

\* dailyUsage.upsert({ where: { userId_date }, update: { increment }, create })
\* (the created row's subscriptionId is a foreign key)
DailyUsageUpsertCreates(d, u, subId, date, n) ==
  IF subId \in SubscriptionIds(d)
  THEN Ok([d EXCEPT !.dailyUsage =
             @ \cup {[userId |-> u, subscriptionId |-> subId, date |-> date,
                      usageCount |-> n]}])
  ELSE Err(d)

DailyUsageUpsert(d, u, subId, date, n) ==
  IF \E r \in d.dailyUsage : r.userId = u /\ r.date = date
  THEN Ok([d EXCEPT !.dailyUsage =
             {IF r.userId = u /\ r.date = date
              THEN [r EXCEPT !.usageCount = @ + n] ELSE r : r \in @}])
  ELSE IF subId \in SubscriptionIds(d)
  THEN Ok([d EXCEPT !.dailyUsage =
             @ \cup {[userId |-> u, subscriptionId |-> subId, date |-> date,
                      usageCount |-> n]}])
  ELSE Err(d)

\* referralStats.update({ where: { userId }, data: { totalUsersSigned: { increment: 1 } } })
ReferralStatsSigned(d, u) ==
  IF u \in DOMAIN d.referralStats
  THEN Ok([d EXCEPT !.referralStats[u].totalUsersSigned = @ + 1])
  ELSE Err(d)

\* user.create({ data }): throws when the identity has a row already (unique
\* clerkUserId) or referredById is the id of no user (foreign key).
UserCreate(d, u, referredById) ==
  IF u \notin DOMAIN d.users
     /\ (referredById = "none" \/ referredById \in DOMAIN d.users)
  THEN Ok([d EXCEPT !.users =
             [x \in DOMAIN @ \cup {u} |->
                IF x = u THEN [referredById |-> referredById] ELSE @[x]]])
  ELSE Err(d)

\* referralStats.create({ data: { userId, referenceId } }): throws when the
\* user has a row already (unique userId).
ReferralStatsCreate(d, u, row) ==
  IF u \in DOMAIN d.users /\ u \notin DOMAIN d.referralStats
  THEN Ok([d EXCEPT !.referralStats =
             [x \in DOMAIN @ \cup {u} |-> IF x = u THEN row ELSE @[x]]])
  ELSE Err(d)

\* billingHistory.deleteMany({ where: { userId } })
BillingHistoryDeleteMany(d, u) ==
  Ok([d EXCEPT !.billingHistory = SelectSeq(@, LAMBDA b : b.userId # u)])

\* Rows that go with their subscription: the ledger entries, usage counters
\* and billing records that reference one of the subscriptions ids.
WithoutRowsOf(d, ids) ==
  [d EXCEPT
     !.creditLedger = SelectSeq(@, LAMBDA e : e.subscriptionId \notin ids),
     !.dailyUsage = {r \in @ : r.subscriptionId \notin ids},
     !.billingHistory = SelectSeq(@, LAMBDA b : b.subscriptionId \notin ids)]

\* subscription.deleteMany({ where: { userId } }), cascading to the rows the
\* user's subscriptions own.
SubscriptionDeleteMany(d, u) ==
  LET ids == {id \in SubscriptionIds(d) : d.subscriptions[id].userId = u} IN
    Ok([WithoutRowsOf(d, ids) EXCEPT
          !.subscriptions =
             [id \in DOMAIN @ |-> IF id \in ids THEN DeletedSubscription ELSE @[id]]])

\* referralStats.delete({ where: { userId } }): throws when there is no row.
ReferralStatsDelete(d, u) ==
  IF u \in DOMAIN d.referralStats
  THEN Ok([d EXCEPT !.referralStats = [x \in DOMAIN @ \ {u} |-> @[x]]])
  ELSE Err(d)

\* What the store does with the users a deleted user referred: it clears their
\* referredById, or it refuses the deletion.
ReferentialActions == {"SetNull", "Restrict"}

\* user.delete({ where: { id } }): throws when there is no row, when the
\* user's ReferralStats row is still there, or when the store refuses because
\* other users refer to this one; the user's subscriptions and their rows go
\* with the user.
UserDelete(d, u, onDelete) ==
  IF \/ u \notin DOMAIN d.users
     \/ u \in DOMAIN d.referralStats
     \/ /\ onDelete = "Restrict"
        /\ \E x \in DOMAIN d.users : d.users[x].referredById = u
  THEN Err(d)
  ELSE LET r == SubscriptionDeleteMany(d, u) IN
         Ok([r.db EXCEPT !.users =
               [x \in DOMAIN @ \ {u} |->
                  IF @[x].referredById = u THEN [@[x] EXCEPT !.referredById = "none"]
                  ELSE @[x]]])

----------------------------------------------------------------------------
(* Calls *)

\* A call that has not read anything yet; alone records whether it arrived
\* while no other call was in progress.
NewCall(op, u) ==
  [op |-> op, pc |-> "start", userId |-> u,
   alone |-> \A j \in DOMAIN calls : calls[j].pc = "done",
   planCode |-> "none", billingCycle |-> "none", amount |-> 0, paidAt |-> 0,
   externalPaymentId |-> "none", n |-> 0,
   referenceId |-> "none", referredById |-> "none",
   subId |-> 0, planId |-> "none", usage |-> 0, avail |-> 0,
   at |-> 0, due |-> 0, todo |-> {}, results |-> {},
   dailyLimit |-> "null", recentCredits |-> << >>,
   res |-> "none", out |-> 0]

CallIds == DOMAIN calls

Running(i, op, pc) ==
  /\ i \in CallIds
  /\ calls[i].op = op
  /\ calls[i].pc = pc

Finish(c, res) == [c EXCEPT !.pc = "done", !.res = res]

----------------------------------------------------------------------------
(* Initial state: every user as signup left it *)

SignupSubscription(u, startDate) ==
  [userId |-> u, planId |-> "Free", billingCycle |-> "monthly",
   status |-> "active",
   currentPeriodStart |-> startDate, currentPeriodEnd |-> AddMonths(startDate, 1),
   cancelAtPeriodEnd |-> FALSE, canceledAt |-> {}]

NewReferralStats ==
  [totalUsersSigned |-> 0, totalPaidSubscribers |-> 0, totalEarning |-> 0]

\* The tables after the signups that left the subscriptions subs.
SignedUp(subs) ==
  [users |-> [u \in Users |-> [referredById |-> ReferredBy(u)]],
   subscriptions |-> subs,
   creditLedger |-> << >>,
   dailyUsage |-> {},
   billingHistory |-> << >>,
   referralStats |-> [u \in Users |->
      IF u = "u1" THEN [NewReferralStats EXCEPT !.totalUsersSigned = 1]
      ELSE NewReferralStats]]

Init ==
  /\ now = 0
  /\ calls = << >>
  /\ \E t \in SignupAts :
     \E subs \in {<<SignupSubscription("u1", t)>>,
                  <<SignupSubscription("u1", t), SignupSubscription("u2", t)>>} :
       db = SignedUp(subs)

----------------------------------------------------------------------------
(* The clock *)

Tick ==
  /\ now < MaxNow
  /\ now' = now + 1
  /\ UNCHANGED <<db, calls>>

----------------------------------------------------------------------------
(* confirmPayment *)

\* creditsToGrant = plan.isDaily ? plan.dailyCredits : plan.monthlyCredits
CreditsToGrantMonthlyOnly(planId) == Plan(planId).monthlyCredits

CreditsToGrant(planId) ==
  IF Plan(planId).isDaily THEN Plan(planId).dailyCredits
  ELSE Plan(planId).monthlyCredits

\* referralEarning: 20% of the plan's price for the billing cycle
ReferralEarningMonthlyOnly(planId, billingCycle) ==
  (Plan(planId).priceMonthly * 20) \div 100

ReferralEarning(planId, billingCycle) ==
  IF billingCycle = "yearly"
  THEN (Plan(planId).priceYearly * 20) \div 100
  ELSE (Plan(planId).priceMonthly * 20) \div 100

\* The call arrives; user and plan are looked up and the period computed.
\* Plans are not changed by any operation, so the plan lookup finds its row.
StartConfirmPayment(u, planCode, paidAt, externalPaymentId, billingCycle, amount) ==
  /\ LET c == [NewCall("confirmPayment", u) EXCEPT
                 !.planCode = planCode, !.planId = FindPlan(planCode),
                 !.paidAt = paidAt, !.externalPaymentId = externalPaymentId,
                 !.billingCycle = billingCycle, !.amount = amount] IN
       calls' = Append(calls,
         IF u \notin DOMAIN db.users THEN Finish(c, "UserNotFound")
         ELSE IF c.planId = "none" THEN Finish(c, "PlanNotFound")
         ELSE [c EXCEPT !.pc = "findSubscription",
                        !.referredById = db.users[u].referredById])
  /\ UNCHANGED <<db, now>>

\* tx.subscription.findFirst inside the transaction
ConfirmFindSubscriptionSkipped(i) ==
  /\ Running(i, "confirmPayment", "findSubscription")
  /\ calls' = [calls EXCEPT ![i] = [@ EXCEPT !.pc = "write", !.subId = 0]]
  /\ UNCHANGED <<db, now>>

ConfirmFindSubscription(i) ==
  /\ Running(i, "confirmPayment", "findSubscription")
  /\ \E id \in FindFirstActive(db, calls[i].userId) :
       calls' = [calls EXCEPT ![i] = [@ EXCEPT !.pc = "write", !.subId = id]]
  /\ UNCHANGED <<db, now>>

\* id of the subscription the body writes: the one found, or the one it creates
ConfirmSubscriptionId(d, c) ==
  IF c.subId # 0 THEN c.subId ELSE Len(d.subscriptions) + 1

\* The writes of the transaction body, in order.
ConfirmPaymentBody(d, c, failAt) ==
  LET start == c.paidAt
      end == AddMonths(c.paidAt, PeriodMonths(c.billingCycle))
      sid == ConfirmSubscriptionId(d, c)
      upsert(x) ==
        IF c.subId # 0
        THEN SubscriptionUpdate(x, c.subId,
               [planId |-> c.planId, billingCycle |-> c.billingCycle,
                status |-> "active",
                currentPeriodStart |-> start, currentPeriodEnd |-> end,
                cancelAtPeriodEnd |-> FALSE, canceledAt |-> {}])
        ELSE SubscriptionCreate(x,
               [userId |-> c.userId, planId |-> c.planId,
                billingCycle |-> c.billingCycle, status |-> "active",
                currentPeriodStart |-> start, currentPeriodEnd |-> end,
                cancelAtPeriodEnd |-> FALSE, canceledAt |-> {}])
      grant(x) ==
        CreditLedgerCreate(x,
          [userId |-> c.userId, subscriptionId |-> sid,
           amount |-> CreditsToGrant(c.planId), type |-> "granted",
           description |-> "subscription"])
      bill(x) ==
        BillingHistoryCreate(x,
          [userId |-> c.userId, subscriptionId |-> sid, amount |-> c.amount,
           currency |-> "usd", status |-> "completed", paymentDate |-> c.paidAt,
           externalPaymentId |-> c.externalPaymentId])
      commission(x) ==
        IF c.referredById # "none" /\ c.amount > 0
        THEN ReferralStatsIncrement(x, c.referredById, 1,
               ReferralEarning(c.planId, c.billingCycle))
        ELSE Ok(x)
      r1 == IF Runs(Ok(d), 1, failAt) THEN upsert(d) ELSE Err(d)
      r2 == IF Runs(r1, 2, failAt) THEN grant(r1.db) ELSE Err(r1.db)
      r3 == IF Runs(r2, 3, failAt) THEN bill(r2.db) ELSE Err(r2.db)
  IN  IF Runs(r3, 4, failAt) THEN commission(r3.db) ELSE Err(r3.db)

\* The transaction's writes and its commit, or its rollback when a write threw.
ConfirmCommit(i) ==
  /\ Running(i, "confirmPayment", "write")
  /\ \E failAt \in 0..4 :
       LET r == ConfirmPaymentBody(db, calls[i], failAt) IN
         /\ db' = Transaction(db, r)
         /\ calls' = [calls EXCEPT ![i] =
              IF r.ok
              THEN [Finish(@, "ok") EXCEPT
                      !.subId = ConfirmSubscriptionId(db, calls[i]),
                      !.out = CreditsToGrant(calls[i].planId)]
              ELSE Finish(@, "TransactionFailure")]
  /\ UNCHANGED now

----------------------------------------------------------------------------
(* cancelSubscription *)

\* The call arrives and looks for the user's active subscription.
StartCancelSubscription(u) ==
  /\ \E id \in FindFirstActive(db, u) :
       calls' = Append(calls,
         IF u \notin DOMAIN db.users
         THEN Finish(NewCall("cancelSubscription", u), "UserNotFound")
         ELSE IF id = 0
         THEN Finish(NewCall("cancelSubscription", u), "NoActiveSubscription")
         ELSE [NewCall("cancelSubscription", u) EXCEPT !.pc = "update", !.subId = id])
  /\ UNCHANGED <<db, now>>

\* the update's data: cancelAtPeriodEnd: true, canceledAt: new Date()
CancelBodyDeactivates(d, c, t, failAt) ==
  IF Runs(Ok(d), 1, failAt)
  THEN SubscriptionUpdate(d, c.subId,
         [status |-> "canceled", cancelAtPeriodEnd |-> TRUE, canceledAt |-> {t}])
  ELSE Err(d)

CancelBody(d, c, t, failAt) ==
  IF Runs(Ok(d), 1, failAt)
  THEN SubscriptionUpdate(d, c.subId,
         [cancelAtPeriodEnd |-> TRUE, canceledAt |-> {t}])
  ELSE Err(d)

\* prisma.subscription.update: a single statement, atomic by itself
CancelUpdate(i) ==
  /\ Running(i, "cancelSubscription", "update")
  /\ \E failAt \in 0..1 :
       LET r == CancelBody(db, calls[i], now, failAt) IN
         /\ db' = Transaction(db, r)
         /\ calls' = [calls EXCEPT ![i] =
              Finish(@, IF r.ok THEN "ok" ELSE "TransactionFailure")]
  /\ UNCHANGED now

----------------------------------------------------------------------------
(* getSubscriptionDetails *)

\* creditLedger: { orderBy: { createdAt: 'desc' }, take: 10 }
RecentCreditsTake == 10

\* The first n of the ledger rows ids, newest first; a row's id is its place in
\* the ledger, rows being kept in the order of their creation.
RECURSIVE NewestFirst(_, _)
NewestFirst(ids, n) ==
  IF ids = {} \/ n = 0 THEN << >>
  ELSE LET newest == CHOOSE k \in ids : \A j \in ids : j <= k
       IN  <<newest>> \o NewestFirst(ids \ {newest}, n - 1)

\* ids of the ledger rows of subscription id
LedgerIds(d, id) ==
  {k \in DOMAIN d.creditLedger : d.creditLedger[k].subscriptionId = id}

\* include: { creditLedger: { orderBy: { createdAt: 'desc' }, take: 10 } }
RecentCreditsUntaken(d, id) ==
  NewestFirst(LedgerIds(d, id), Cardinality(LedgerIds(d, id)))

RecentCredits(d, id) == NewestFirst(LedgerIds(d, id), RecentCreditsTake)

\* dailyLimit: subscription.plan.isDaily ? subscription.plan.dailyCredits : null
DailyLimit(planId) ==
  IF Plan(planId).isDaily THEN Plan(planId).dailyCredits ELSE "null"

\* The call arrives and looks for the user's active subscription; without one
\* it returns availableCredits 0 at once.
StartGetSubscriptionDetails(u) ==
  /\ \E id \in FindFirstActive(db, u) :
       calls' = Append(calls,
         IF u \notin DOMAIN db.users
         THEN Finish(NewCall("getSubscriptionDetails", u), "UserNotFound")
         ELSE IF id = 0
         THEN [Finish(NewCall("getSubscriptionDetails", u), "ok") EXCEPT !.out = 0]
         ELSE [NewCall("getSubscriptionDetails", u) EXCEPT
                 !.pc = "sum", !.subId = id,
                 !.planId = db.subscriptions[id].planId,
                 !.dailyLimit = DailyLimit(db.subscriptions[id].planId),
                 !.recentCredits = RecentCredits(db, id)])
  /\ UNCHANGED <<db, now>>

\* availableCredits = creditSum._sum.amount || 0
AvailableCreditsGrantedOnly(d, u) ==
  SumAmounts(SelectSeq(d.creditLedger,
                       LAMBDA e : e.userId = u /\ e.type = "granted"))

AvailableCredits(d, u) == CreditSum(d, u)

GetDetailsSum(i) ==
  /\ Running(i, "getSubscriptionDetails", "sum")
  /\ calls' = [calls EXCEPT ![i] =
       [@ EXCEPT !.pc = "usage",
                 !.avail = AvailableCredits(db, calls[i].userId)]]
  /\ UNCHANGED <<db, now>>

\* today's usage is read and the details are returned
GetDetailsUsage(i) ==
  /\ Running(i, "getSubscriptionDetails", "usage")
  /\ calls' = [calls EXCEPT ![i] =
       [Finish(@, "ok") EXCEPT
          !.usage = UsageCount(db, calls[i].userId, StartOfDay(now)),
          !.out = calls[i].avail]]
  /\ UNCHANGED <<db, now>>

----------------------------------------------------------------------------
(* consumeCredits *)

\* The call arrives and looks for the user's active subscription and its plan.
StartConsumeCredits(u, n) ==
  /\ \E id \in FindFirstActive(db, u) :
       calls' = Append(calls,
         IF u \notin DOMAIN db.users
         THEN Finish([NewCall("consumeCredits", u) EXCEPT !.n = n], "UserNotFound")
         ELSE IF id = 0
         THEN Finish([NewCall("consumeCredits", u) EXCEPT !.n = n],
                     "NoActiveSubscription")
         ELSE [NewCall("consumeCredits", u) EXCEPT
                 !.n = n, !.subId = id,
                 !.planId = db.subscriptions[id].planId,
                 !.pc = IF Plan(db.subscriptions[id].planId).isDaily
                        THEN "dailyLimit" ELSE "balance"])
  /\ UNCHANGED <<db, now>>

\* currentUsage + creditsToConsume > subscription.plan.dailyCredits
DailyLimitExceededNever(currentUsage, n, planId) == FALSE

DailyLimitExceeded(currentUsage, n, planId) ==
  currentUsage + n > Plan(planId).dailyCredits

\* The daily-limit check of a daily plan.
ConsumeCheckDailyLimit(i) ==
  /\ Running(i, "consumeCredits", "dailyLimit")
  /\ LET c == calls[i]
         currentUsage == UsageCount(db, c.userId, StartOfDay(now)) IN
       calls' = [calls EXCEPT ![i] =
         IF DailyLimitExceeded(currentUsage, c.n, c.planId)
         THEN [Finish(@, "DailyLimitExceeded") EXCEPT !.usage = currentUsage]
         ELSE [@ EXCEPT !.pc = "balance", !.usage = currentUsage]]
  /\ UNCHANGED <<db, now>>

\* availableCredits < creditsToConsume
InsufficientCreditsNever(availableCredits, n) == FALSE

InsufficientCredits(availableCredits, n) == availableCredits < n

\* The balance check.
ConsumeCheckBalance(i) ==
  /\ Running(i, "consumeCredits", "balance")
  /\ LET c == calls[i]
         availableCredits == CreditSum(db, c.userId) IN
       calls' = [calls EXCEPT ![i] =
         IF InsufficientCredits(availableCredits, c.n)
         THEN [Finish(@, "InsufficientCredits") EXCEPT !.avail = availableCredits]
         ELSE [@ EXCEPT !.pc = "write", !.avail = availableCredits]]
  /\ UNCHANGED <<db, now>>

\* The writes of the consumption transaction, in order; t is the time at which
\* the body computes today.
ConsumeCreditsBody(d, c, t, failAt) ==
  LET consume(x) ==
        CreditLedgerCreate(x,
          [userId |-> c.userId, subscriptionId |-> c.subId,
           amount |-> 0 - c.n, type |-> "consumed", description |-> "usage"])
      count(x) ==
        IF Plan(c.planId).isDaily
        THEN DailyUsageUpsert(x, c.userId, c.subId, StartOfDay(t), c.n)
        ELSE Ok(x)
      r1 == IF Runs(Ok(d), 1, failAt) THEN consume(d) ELSE Err(d)
  IN  IF Runs(r1, 2, failAt) THEN count(r1.db) ELSE Err(r1.db)

\* remainingCredits: availableCredits - creditsToConsume
RemainingCreditsUnreduced(c) == c.avail

RemainingCredits(c) == c.avail - c.n

ConsumeCommit(i) ==
  /\ Running(i, "consumeCredits", "write")
  /\ \E failAt \in 0..2 :
       LET r == ConsumeCreditsBody(db, calls[i], now, failAt) IN
         /\ db' = Transaction(db, r)
         /\ calls' = [calls EXCEPT ![i] =
              IF r.ok
              THEN [Finish(@, "ok") EXCEPT !.out = RemainingCredits(calls[i])]
              ELSE Finish(@, "TransactionFailure")]
  /\ UNCHANGED now

----------------------------------------------------------------------------
(* renewDueSubscriptions *)

\* where: { status: 'active', cancelAtPeriodEnd: false, currentPeriodEnd: { lte: now } }
IsDue(s, t) ==
  /\ s.status = "active"
  /\ ~s.cancelAtPeriodEnd
  /\ s.currentPeriodEnd <= t

\* findMany: the due rows as read by the scan (with their plan), each once
DueSubscriptions(d, t) ==
  {[id |-> id, userId |-> d.subscriptions[id].userId,
    planId |-> d.subscriptions[id].planId,
    billingCycle |-> d.subscriptions[id].billingCycle,
    currentPeriodEnd |-> d.subscriptions[id].currentPeriodEnd] :
     id \in {x \in DOMAIN d.subscriptions : IsDue(d.subscriptions[x], t)}}

\* The pass starts: it reads the clock and scans for due subscriptions.
StartRenewDueSubscriptions ==
  /\ LET due == DueSubscriptions(db, now)
         c == [NewCall("renewDueSubscriptions", "none") EXCEPT
                 !.at = now, !.due = Cardinality(due)] IN
       calls' = Append(calls,
         IF due = {} THEN Finish(c, "ok")
         ELSE [c EXCEPT !.pc = "loop", !.todo = due])
  /\ UNCHANGED <<db, now>>

\* newPeriodEnd: one billing period after the period end read by the scan
NewPeriodEndNotExtended(s) == s.currentPeriodEnd

NewPeriodEnd(s) == AddMonths(s.currentPeriodEnd, PeriodMonths(s.billingCycle))

\* The writes of one subscription's renewal transaction, in order; s is the
\* row as the scan read it.
RenewBody(d, s, failAt) ==
  LET extend(x) ==
        SubscriptionUpdate(x, s.id,
          [currentPeriodStart |-> s.currentPeriodEnd,
           currentPeriodEnd |-> NewPeriodEnd(s)])
      grant(x) ==
        CreditLedgerCreate(x,
          [userId |-> s.userId, subscriptionId |-> s.id,
           amount |-> CreditsToGrant(s.planId), type |-> "granted",
           description |-> "renewal"])
      r1 == IF Runs(Ok(d), 1, failAt) THEN extend(d) ELSE Err(d)
  IN  IF Runs(r1, 2, failAt) THEN grant(r1.db) ELSE Err(r1.db)

\* One iteration of the loop: the next due subscription's transaction; the
\* pass returns after the last one.
RenewNextStopsAtFailure(i) ==
  /\ Running(i, "renewDueSubscriptions", "loop")
  /\ \E s \in calls[i].todo, failAt \in 0..2 :
       LET r == RenewBody(db, s, failAt)
           result == [subscriptionId |-> s.id, success |-> r.ok,
                      newPeriodEnd |-> NewPeriodEnd(s)]
           c == [calls[i] EXCEPT !.todo = @ \ {s}, !.results = @ \cup {result}] IN
         /\ db' = Transaction(db, r)
         /\ calls' = [calls EXCEPT ![i] =
              IF ~r.ok THEN Finish(c, "TransactionFailure")
              ELSE IF c.todo = {} THEN Finish(c, "ok") ELSE c]
  /\ UNCHANGED now

RenewNext(i) ==
  /\ Running(i, "renewDueSubscriptions", "loop")
  /\ \E s \in calls[i].todo, failAt \in 0..2 :
       LET r == RenewBody(db, s, failAt)
           result == [subscriptionId |-> s.id, success |-> r.ok,
                      newPeriodEnd |-> NewPeriodEnd(s)]
           c == [calls[i] EXCEPT !.todo = @ \ {s}, !.results = @ \cup {result}] IN
         /\ db' = Transaction(db, r)
         /\ calls' = [calls EXCEPT ![i] =
              IF c.todo = {} THEN Finish(c, "ok") ELSE c]
  /\ UNCHANGED now

----------------------------------------------------------------------------
(* setupNewUser *)

\* The request arrives and the identity is looked up: an identity that has a
\* User row is answered at once.
StartSetupNewUser(u, referenceId) ==
  /\ LET c == [NewCall("setupNewUser", u) EXCEPT !.referenceId = referenceId] IN
       calls' = Append(calls,
         IF u \in DOMAIN db.users THEN Finish(c, "UserExists")
         ELSE [c EXCEPT !.pc = IF referenceId = "none" THEN "write" ELSE "referrer",
                        !.planId = "Free", !.billingCycle = "monthly", !.at = now])
  /\ UNCHANGED <<db, now>>

\* user.findFirst({ where: { referralStats: { referenceId } } }): the users
\* whose reference code is referenceId
FindReferrerAnyCode(d, referenceId) ==
  {x \in DOMAIN d.users : x \in DOMAIN d.referralStats}

FindReferrer(d, referenceId) ==
  {x \in DOMAIN d.users : x \in DOMAIN d.referralStats /\ x = referenceId}

\* The referrer is validated; startDate is read from the clock.
SetupFindReferrer(i) ==
  /\ Running(i, "setupNewUser", "referrer")
  /\ LET found == FindReferrer(db, calls[i].referenceId) IN
       calls' = [calls EXCEPT ![i] =
         IF found = {} THEN Finish(@, "InvalidReferrer")
         ELSE [@ EXCEPT !.pc = "write", !.at = now,
                        !.referredById = CHOOSE x \in found : TRUE]]
  /\ UNCHANGED <<db, now>>

\* The writes of the signup transaction, in order.
SetupNewUserBodyUncounted(d, c, failAt) ==
  LET user(x) == UserCreate(x, c.userId, c.referredById)
      stats(x) == ReferralStatsCreate(x, c.userId, NewReferralStats)
      subscription(x) == SubscriptionCreate(x, SignupSubscription(c.userId, c.at))
      r1 == IF Runs(Ok(d), 1, failAt) THEN user(d) ELSE Err(d)
      r2 == IF Runs(r1, 2, failAt) THEN stats(r1.db) ELSE Err(r1.db)
  IN  IF Runs(r2, 3, failAt) THEN subscription(r2.db) ELSE Err(r2.db)

SetupNewUserBody(d, c, failAt) ==
  LET user(x) == UserCreate(x, c.userId, c.referredById)
      stats(x) == ReferralStatsCreate(x, c.userId, NewReferralStats)
      subscription(x) == SubscriptionCreate(x, SignupSubscription(c.userId, c.at))
      signed(x) ==
        IF c.referredById # "none" THEN ReferralStatsSigned(x, c.referredById)
        ELSE Ok(x)
      r1 == IF Runs(Ok(d), 1, failAt) THEN user(d) ELSE Err(d)
      r2 == IF Runs(r1, 2, failAt) THEN stats(r1.db) ELSE Err(r1.db)
      r3 == IF Runs(r2, 3, failAt) THEN subscription(r2.db) ELSE Err(r2.db)
  IN  IF Runs(r3, 4, failAt) THEN signed(r3.db) ELSE Err(r3.db)

SetupCommit(i) ==
  /\ Running(i, "setupNewUser", "write")
  /\ \E failAt \in 0..4 :
       LET r == SetupNewUserBody(db, calls[i], failAt) IN
         /\ db' = Transaction(db, r)
         /\ calls' = [calls EXCEPT ![i] =
              IF r.ok
              THEN [Finish(@, "ok") EXCEPT !.subId = Len(db.subscriptions) + 1]
              ELSE Finish(@, "TransactionFailure")]
  /\ UNCHANGED now

----------------------------------------------------------------------------
(* deleteUser *)

\* The request arrives and the user is looked up.
StartDeleteUser(u) ==
  /\ calls' = Append(calls,
       IF u \notin DOMAIN db.users
       THEN Finish(NewCall("deleteUser", u), "UserNotFound")
       ELSE [NewCall("deleteUser", u) EXCEPT !.pc = "write"])
  /\ UNCHANGED <<db, now>>

\* The writes of the deletion transaction, in order.
DeleteUserBodyKeepsUser(d, c, onDelete, failAt) ==
  LET r1 == IF Runs(Ok(d), 1, failAt) THEN BillingHistoryDeleteMany(d, c.userId)
            ELSE Err(d)
      r2 == IF Runs(r1, 2, failAt) THEN SubscriptionDeleteMany(r1.db, c.userId)
            ELSE Err(r1.db)
  IN  IF Runs(r2, 3, failAt) THEN ReferralStatsDelete(r2.db, c.userId)
      ELSE Err(r2.db)

DeleteUserBody(d, c, onDelete, failAt) ==
  LET r1 == IF Runs(Ok(d), 1, failAt) THEN BillingHistoryDeleteMany(d, c.userId)
            ELSE Err(d)
      r2 == IF Runs(r1, 2, failAt) THEN SubscriptionDeleteMany(r1.db, c.userId)
            ELSE Err(r1.db)
      r3 == IF Runs(r2, 3, failAt) THEN ReferralStatsDelete(r2.db, c.userId)
            ELSE Err(r2.db)
  IN  IF Runs(r3, 4, failAt) THEN UserDelete(r3.db, c.userId, onDelete)
      ELSE Err(r3.db)

DeleteUserCommit(i) ==
  /\ Running(i, "deleteUser", "write")
  /\ \E onDelete \in ReferentialActions, failAt \in 0..4 :
       LET r == DeleteUserBody(db, calls[i], onDelete, failAt) IN
         /\ db' = Transaction(db, r)
         /\ calls' = [calls EXCEPT ![i] =
              Finish(@, IF r.ok THEN "ok" ELSE "TransactionFailure")]
  /\ UNCHANGED now

----------------------------------------------------------------------------
(* Specifications *)

\* every step of a call already started
Step ==
  \/ \E i \in CallIds : ConfirmFindSubscription(i)
  \/ \E i \in CallIds : ConfirmCommit(i)
  \/ \E i \in CallIds : CancelUpdate(i)
  \/ \E i \in CallIds : GetDetailsSum(i)
  \/ \E i \in CallIds : GetDetailsUsage(i)
  \/ \E i \in CallIds : ConsumeCheckDailyLimit(i)
  \/ \E i \in CallIds : ConsumeCheckBalance(i)
  \/ \E i \in CallIds : ConsumeCommit(i)
  \/ \E i \in CallIds : RenewNext(i)
  \/ \E i \in CallIds : SetupFindReferrer(i)
  \/ \E i \in CallIds : SetupCommit(i)
  \/ \E i \in CallIds : DeleteUserCommit(i)

\* The whole service: any call with any input, the clock running.
Next ==
  \/ Tick
  \/ /\ Len(calls) < MaxCalls
     /\ \/ \E u \in Users, p \in PlanIds, t \in PaidAts, b \in BillingCycles,
              a \in Amounts : StartConfirmPayment(u, p, t, "pi_1", b, a)
        \/ \E u \in Users : StartCancelSubscription(u)
        \/ \E u \in Users : StartGetSubscriptionDetails(u)
        \/ \E u \in Users, n \in ConsumeAmounts : StartConsumeCredits(u, n)
        \/ StartRenewDueSubscriptions
        \/ \E u \in SignupIdentities, r \in ReferenceIds : StartSetupNewUser(u, r)
        \/ \E u \in Users : StartDeleteUser(u)
  \/ Step

Spec == Init /\ [][Next]_vars

\* The payment scenario: confirmations only, with every input, at one instant.
NextPay ==
  \/ /\ Len(calls) < MaxPayCalls
     /\ \E u \in Users, p \in PlanIds, t \in PaidAts, b \in BillingCycles,
           a \in Amounts : StartConfirmPayment(u, p, t, "pi_1", b, a)
  \/ \E i \in CallIds : ConfirmFindSubscription(i)
  \/ \E i \in CallIds : ConfirmCommit(i)

SpecPay == Init /\ [][NextPay]_vars

\* The usage scenario: one user buys a plan, consumes and looks at the balance,
\* the clock running.
NextUsage ==
  \/ Tick
  \/ /\ Len(calls) < MaxUsageCalls
     /\ \/ \E p \in {"Free", "Pro"} :
             StartConfirmPayment("u2", p, now, "pi_1", "monthly", 0)
        \/ StartGetSubscriptionDetails("u2")
        \/ \E n \in ConsumeAmounts : StartConsumeCredits("u2", n)
  \/ \E i \in CallIds : ConfirmFindSubscription(i)
  \/ \E i \in CallIds : ConfirmCommit(i)
  \/ \E i \in CallIds : GetDetailsSum(i)
  \/ \E i \in CallIds : GetDetailsUsage(i)
  \/ \E i \in CallIds : ConsumeCheckDailyLimit(i)
  \/ \E i \in CallIds : ConsumeCheckBalance(i)
  \/ \E i \in CallIds : ConsumeCommit(i)

SpecUsage == Init /\ [][NextUsage]_vars

\* The renewal scenario: renewal passes next to confirmations (also backdated
\* ones) and cancellations, the clock running.
NextRenew ==
  \/ Tick
  \/ /\ Len(calls) < MaxRenewCalls
     /\ \/ \E u \in Users, t \in PaidAts, b \in BillingCycles :
             StartConfirmPayment(u, "Pro", t, "pi_1", b, 0)
        \/ \E u \in Users : StartCancelSubscription(u)
        \/ StartRenewDueSubscriptions
  \/ \E i \in CallIds : ConfirmFindSubscription(i)
  \/ \E i \in CallIds : ConfirmCommit(i)
  \/ \E i \in CallIds : CancelUpdate(i)
  \/ \E i \in CallIds : RenewNext(i)

SpecRenew == Init /\ [][NextRenew]_vars

\* The ledger scenario: every operation that writes the ledger (confirmations,
\* renewals, consumptions) next to balance queries, at one instant.
NextLedger ==
  \/ /\ Len(calls) < MaxLedgerCalls
     /\ \/ \E u \in Users : StartConfirmPayment(u, "Free", now, "pi_1", "monthly", 0)
        \/ \E u \in Users : StartGetSubscriptionDetails(u)
        \/ \E u \in Users : StartConsumeCredits(u, 1)
        \/ StartRenewDueSubscriptions
  \/ \E i \in CallIds : ConfirmFindSubscription(i)
  \/ \E i \in CallIds : ConfirmCommit(i)
  \/ \E i \in CallIds : GetDetailsSum(i)
  \/ \E i \in CallIds : GetDetailsUsage(i)
  \/ \E i \in CallIds : ConsumeCheckBalance(i)
  \/ \E i \in CallIds : ConsumeCommit(i)
  \/ \E i \in CallIds : RenewNext(i)

SpecLedger == Init /\ [][NextLedger]_vars

\* The cancellation scenario: all five operations of the service for users on
\* the free plan, at one instant.
NextCancel ==
  \/ /\ Len(calls) < MaxCancelCalls
     /\ \/ \E u \in Users : StartConfirmPayment(u, "Free", now, "pi_1", "monthly", 0)
        \/ \E u \in Users : StartCancelSubscription(u)
        \/ \E u \in Users : StartGetSubscriptionDetails(u)
        \/ \E u \in Users : StartConsumeCredits(u, 1)
        \/ StartRenewDueSubscriptions
  \/ \E i \in CallIds : ConfirmFindSubscription(i)
  \/ \E i \in CallIds : ConfirmCommit(i)
  \/ \E i \in CallIds : CancelUpdate(i)
  \/ \E i \in CallIds : GetDetailsSum(i)
  \/ \E i \in CallIds : GetDetailsUsage(i)
  \/ \E i \in CallIds : ConsumeCheckBalance(i)
  \/ \E i \in CallIds : ConsumeCommit(i)
  \/ \E i \in CallIds : RenewNext(i)

SpecCancel == Init /\ [][NextCancel]_vars

\* The duplicate-delivery scenario: paid confirmations of the Pro plan, the
\* webhook and the direct confirmation carrying the same or another payment id.
NextDuplicate ==
  \/ /\ Len(calls) < MaxDuplicateCalls
     /\ \E u \in Users, x \in ExternalPaymentIds :
          StartConfirmPayment(u, "Pro", now, x, "monthly", Plan("Pro").priceMonthly)
  \/ \E i \in CallIds : ConfirmFindSubscription(i)
  \/ \E i \in CallIds : ConfirmCommit(i)

SpecDuplicate == Init /\ [][NextDuplicate]_vars

\* The signup scenario: signups next to free confirmations, consumptions and
\* balance queries of the identities that sign up, at one instant.
NextSignup ==
  \/ /\ Len(calls) < MaxSignupCalls
     /\ \/ \E u \in SignupIdentities, r \in ReferenceIds : StartSetupNewUser(u, r)
        \/ StartConfirmPayment("u3", "Free", now, "pi_1", "monthly", 0)
        \/ StartConsumeCredits("u3", 1)
        \/ StartGetSubscriptionDetails("u3")
  \/ \E i \in CallIds : SetupFindReferrer(i)
  \/ \E i \in CallIds : SetupCommit(i)
  \/ \E i \in CallIds : ConfirmFindSubscription(i)
  \/ \E i \in CallIds : ConfirmCommit(i)
  \/ \E i \in CallIds : ConsumeCheckBalance(i)
  \/ \E i \in CallIds : ConsumeCommit(i)
  \/ \E i \in CallIds : GetDetailsSum(i)
  \/ \E i \in CallIds : GetDetailsUsage(i)

SpecSignup == Init /\ [][NextSignup]_vars

\* The deletion scenario: deletions next to paid confirmations of the daily
\* plan and consumptions, at one instant.
NextDelete ==
  \/ /\ Len(calls) < MaxDeleteCalls
     /\ \/ \E u \in Users : StartDeleteUser(u)
        \/ \E u \in Users :
             StartConfirmPayment(u, "Pro", now, "pi_1", "monthly", Plan("Pro").priceMonthly)
        \/ \E u \in Users : StartConsumeCredits(u, 1)
  \/ \E i \in CallIds : DeleteUserCommit(i)
  \/ \E i \in CallIds : ConfirmFindSubscription(i)
  \/ \E i \in CallIds : ConfirmCommit(i)
  \/ \E i \in CallIds : ConsumeCheckDailyLimit(i)
  \/ \E i \in CallIds : ConsumeCheckBalance(i)
  \/ \E i \in CallIds : ConsumeCommit(i)

SpecDelete == Init /\ [][NextDelete]_vars

\* The not-found scenario: confirmations, consumptions and cancellations for
\* a user that may have no subscription, for an identity without User row and
\* for a plan code of no plan, at one instant.
NextNotFound ==
  \/ /\ Len(calls) < MaxNotFoundCalls
     /\ \/ \E u \in {"u2", "u3"}, p \in {"Free", "Gold"} :
             StartConfirmPayment(u, p, now, "pi_1", "monthly", 0)
        \/ \E u \in {"u2", "u3"} : StartConsumeCredits(u, 1)
        \/ \E u \in {"u2", "u3"} : StartCancelSubscription(u)
  \/ \E i \in CallIds : ConfirmFindSubscription(i)
  \/ \E i \in CallIds : ConfirmCommit(i)
  \/ \E i \in CallIds : ConsumeCheckBalance(i)
  \/ \E i \in CallIds : ConsumeCommit(i)
  \/ \E i \in CallIds : CancelUpdate(i)

SpecNotFound == Init /\ [][NextNotFound]_vars

\* The daily-quota scenario: one user buys the daily plan and consumes on
\* this day and the next.
NextDaily ==
  \/ Tick
  \/ /\ Len(calls) < MaxDailyCalls
     /\ \/ StartConfirmPayment("u2", "Pro", now, "pi_1", "monthly", 9990)
        \/ \E n \in DailyAmounts : StartConsumeCredits("u2", n)
  \/ \E i \in CallIds : ConfirmFindSubscription(i)
  \/ \E i \in CallIds : ConfirmCommit(i)
  \/ \E i \in CallIds : ConsumeCheckDailyLimit(i)
  \/ \E i \in CallIds : ConsumeCheckBalance(i)
  \/ \E i \in CallIds : ConsumeCommit(i)

SpecDaily == Init /\ [][NextDaily]_vars

\* The tables after user u2, signed up, has paid for the daily plan at time 0.
Paid(d) ==
  ConfirmPaymentBody(d,
    [NewCall("confirmPayment", "u2") EXCEPT
       !.planCode = "Pro", !.planId = "Pro", !.billingCycle = "monthly",
       !.amount = 9990, !.paidAt = 0, !.externalPaymentId = "pi_0",
       !.referredById = d.users["u2"].referredById,
       !.subId = CHOOSE id \in FindFirstActive(d, "u2") : TRUE], 0).db

\* ... and has then consumed one credit k times on the day of time 0.
RECURSIVE Consumed(_, _)
Consumed(d, k) ==
  IF k = 0 THEN d
  ELSE LET before == Consumed(d, k - 1) IN
       ConsumeCreditsBody(before,
         [NewCall("consumeCredits", "u2") EXCEPT
            !.n = 1, !.planId = "Pro",
            !.subId = CHOOSE id \in FindFirstActive(before, "u2") : TRUE],
         0, 0).db

\* numbers of consumptions behind the user of the details scenario
HistoryLengths == {0, 9, 10}

\* The details scenario starts after the signups, or after a payment and
\* some consumptions of user u2.
InitDetails ==
  /\ now = 0
  /\ calls = << >>
  /\ \E t \in SignupAts :
       \/ \E subs \in {<<SignupSubscription("u1", t)>>,
                       <<SignupSubscription("u1", t), SignupSubscription("u2", t)>>} :
            db = SignedUp(subs)
       \/ \E k \in HistoryLengths :
            db = Consumed(Paid(SignedUp(<<SignupSubscription("u1", t),
                                         SignupSubscription("u2", t)>>)), k)

\* The details scenario: one user looks at the subscription and consumes, the
\* clock running.
NextDetails ==
  \/ Tick
  \/ /\ Len(calls) < MaxDetailsCalls
     /\ \/ StartGetSubscriptionDetails("u2")
        \/ StartConsumeCredits("u2", 1)
  \/ \E i \in CallIds : GetDetailsSum(i)
  \/ \E i \in CallIds : GetDetailsUsage(i)
  \/ \E i \in CallIds : ConsumeCheckDailyLimit(i)
  \/ \E i \in CallIds : ConsumeCheckBalance(i)
  \/ \E i \in CallIds : ConsumeCommit(i)

SpecDetails == InitDetails /\ [][NextDetails]_vars

\* The early-renewal scenario: renewal passes, also early and repeated ones,
\* next to one user's confirmations (also backdated ones), the clock running.
NextEarly ==
  \/ Tick
  \/ /\ Len(calls) < MaxEarlyCalls
     /\ \/ \E t \in PaidAts :
             StartConfirmPayment("u2", "Pro", t, "pi_1", "monthly", 0)
        \/ StartRenewDueSubscriptions
  \/ \E i \in CallIds : ConfirmFindSubscription(i)
  \/ \E i \in CallIds : ConfirmCommit(i)
  \/ \E i \in CallIds : RenewNext(i)

SpecEarly == Init /\ [][NextEarly]_vars

\* The expiry scenario: one user's confirmations, cancellations and
\* consumptions next to renewal passes, the clock running past the period end.
NextExpired ==
  \/ Tick
  \/ /\ Len(calls) < MaxExpiredCalls
     /\ \/ StartConfirmPayment("u2", "Free", now, "pi_1", "monthly", 0)
        \/ StartCancelSubscription("u2")
        \/ StartConsumeCredits("u2", 1)
        \/ StartRenewDueSubscriptions
  \/ \E i \in CallIds : ConfirmFindSubscription(i)
  \/ \E i \in CallIds : ConfirmCommit(i)
  \/ \E i \in CallIds : CancelUpdate(i)
  \/ \E i \in CallIds : ConsumeCheckBalance(i)
  \/ \E i \in CallIds : ConsumeCommit(i)
  \/ \E i \in CallIds : RenewNext(i)

SpecExpired == Init /\ [][NextExpired]_vars

\* The one-at-a-time scenario: signups, confirmations, cancellations,
\* consumptions and renewal passes, each arriving when the one before has
\* returned, at one instant.
NextSequential ==
  \/ /\ Len(calls) < MaxSequentialCalls
     /\ \A j \in CallIds : calls[j].pc = "done"
     /\ \/ \E u \in SignupIdentities : StartSetupNewUser(u, "u1")
        \/ \E u \in SignupIdentities, t \in PaidAts :
             StartConfirmPayment(u, "Free", t, "pi_1", "monthly", 0)
        \/ \E u \in SignupIdentities : StartCancelSubscription(u)
        \/ \E u \in SignupIdentities : StartConsumeCredits(u, 1)
        \/ StartRenewDueSubscriptions
  \/ \E i \in CallIds : SetupFindReferrer(i)
  \/ \E i \in CallIds : SetupCommit(i)
  \/ \E i \in CallIds : ConfirmFindSubscription(i)
  \/ \E i \in CallIds : ConfirmCommit(i)
  \/ \E i \in CallIds : CancelUpdate(i)
  \/ \E i \in CallIds : ConsumeCheckBalance(i)
  \/ \E i \in CallIds : ConsumeCommit(i)
  \/ \E i \in CallIds : RenewNext(i)

SpecSequential == Init /\ [][NextSequential]_vars

\* The amounts scenario: one user's confirmations of every plan of the catalog
\* (also backdated ones) and consumptions of every amount, next to renewal
\* passes, at one instant.
NextAmounts ==
  \/ /\ Len(calls) < MaxAmountsCalls
     /\ \/ \E p \in PlanIds, t \in PaidAts :
             StartConfirmPayment("u2", p, t, "pi_1", "monthly", 0)
        \/ \E n \in ConsumeAmounts : StartConsumeCredits("u2", n)
        \/ StartRenewDueSubscriptions
  \/ \E i \in CallIds : ConfirmFindSubscription(i)
  \/ \E i \in CallIds : ConfirmCommit(i)
  \/ \E i \in CallIds : ConsumeCheckDailyLimit(i)
  \/ \E i \in CallIds : ConsumeCheckBalance(i)
  \/ \E i \in CallIds : ConsumeCommit(i)
  \/ \E i \in CallIds : RenewNext(i)

SpecAmounts == Init /\ [][NextAmounts]_vars

\* scripts/runRenewals.js: process.exit once the pass has returned; the
\* result of the pass is gone with the process.
RunRenewalsExit ==
  /\ calls # << >>
  /\ \A j \in CallIds : calls[j].pc = "done"
  /\ calls' = << >>
  /\ UNCHANGED <<db, now>>

\* The script is started (by cron) when no run of it is in progress.
RunRenewals ==
  /\ calls = << >>
  /\ StartRenewDueSubscriptions

\* The renewal transaction of the pass's next subscription commits.
RenewNextCommits(i) == RenewNext(i) /\ db' # db

\* The catch-up scenario starts after the signups, at the end of the younger
\* subscriptions' first period or one month later.
InitCatchUp ==
  /\ now \in {0, 1, Month}
  /\ calls = << >>
  /\ \E t \in SignupAts :
     \E subs \in {<<SignupSubscription("u1", t)>>,
                  <<SignupSubscription("u1", t), SignupSubscription("u2", t)>>,
                  <<SignupSubscription("u1", t),
                    SignupSubscription("u2", t + Month)>>} :
       db = SignedUp(subs)

\* The catch-up scenario: the renewal script run again and again, one run
\* after the other, the clock held fixed.
NextCatchUp ==
  \/ RunRenewals
  \/ RenewNext(1)
  \/ RunRenewalsExit

\* cron keeps starting the script, the loop of a pass goes on, and the store
\* does not fail a subscription's transaction for ever
SpecCatchUp ==
  /\ InitCatchUp
  /\ [][NextCatchUp]_vars
  /\ WF_vars(RunRenewals)
  /\ WF_vars(RenewNext(1))
  /\ WF_vars(RunRenewalsExit)
  /\ SF_vars(RenewNextCommits(1))

----------------------------------------------------------------------------
(* Properties *)

\* Call i's transaction ends in this step (committed or rolled back).
Commits(i, op) ==
  /\ i \in DOMAIN calls
  /\ calls[i].op = op
  /\ calls[i].pc = "write"
  /\ calls'[i].pc = "done"

LedgerOf(d, u) == SelectSeq(d.creditLedger, LAMBDA e : e.userId = u)

BillingOf(d, u) == SelectSeq(d.billingHistory, LAMBDA e : e.userId = u)

\* C1: a successful confirmPayment raises the user's balance (the sum of the
\* user's ledger amounts) by exactly creditsGranted, the plan's dailyCredits if
\* the plan is daily and its monthlyCredits otherwise, by appending exactly one
\* ledger entry of type 'granted' with that amount.
C1_BalanceGrowsByGrant ==
  [][\A i \in DOMAIN calls :
       Commits(i, "confirmPayment") /\ calls'[i].res = "ok" =>
         LET c == calls[i]
             plan == Plan(c.planCode)
             creditsGranted ==
               IF plan.isDaily THEN plan.dailyCredits ELSE plan.monthlyCredits
             k == Len(db.creditLedger)
         IN  /\ CreditSum(db', c.userId) = CreditSum(db, c.userId) + creditsGranted
             /\ Len(db'.creditLedger) = k + 1
             /\ SubSeq(db'.creditLedger, 1, k) = db.creditLedger
             /\ db'.creditLedger[k + 1].userId = c.userId
             /\ db'.creditLedger[k + 1].type = "granted"
             /\ db'.creditLedger[k + 1].amount = creditsGranted
             /\ calls'[i].out = creditsGranted
    ]_vars

\* a confirmation of the daily plan has succeeded for a user who had a balance
C1_Witness ==
  \E i \in DOMAIN calls :
    /\ calls[i].op = "confirmPayment"
    /\ calls[i].res = "ok"
    /\ calls[i].planCode = "Pro"
    /\ CreditSum(db, calls[i].userId) = 27

\* C2: two confirmPayment calls for one user, interleaved in any way, never
\* leave the user with two subscriptions whose status is 'active'.
C2_AtMostOneActive ==
  \A u \in Users : Cardinality(ActiveSubscriptions(db, u)) <= 1

\* as many payment grants in the user's ledger as billing records of the user
GrantsMatchBilling(d) ==
  \A u \in Users :
    Len(SelectSeq(LedgerOf(d, u), LAMBDA e : e.description = "subscription"))
      = Len(BillingOf(d, u))

\* C3: confirmPayment is all-or-nothing: when a statement of its transaction
\* fails the call reports an error and every table is as before the call's
\* writes; when it succeeds the subscription, the grant and the billing record
\* are all there; no state has a grant without its billing record or a
\* billing record without its grant.
C3_ConfirmAllOrNothing ==
  [][/\ \A i \in DOMAIN calls :
          Commits(i, "confirmPayment") =>
            IF calls'[i].res = "ok"
            THEN /\ Len(db'.creditLedger) = Len(db.creditLedger) + 1
                 /\ Len(db'.billingHistory) = Len(db.billingHistory) + 1
                 /\ calls'[i].subId \in ActiveSubscriptions(db', calls[i].userId)
            ELSE /\ calls'[i].res = "TransactionFailure"
                 /\ db' = db
     /\ GrantsMatchBilling(db')
    ]_vars

\* a paid confirmation of a referred user was rolled back next to one that
\* committed
C3_Witness ==
  \E i, j \in DOMAIN calls :
    /\ calls[i].op = "confirmPayment"
    /\ calls[i].res = "TransactionFailure"
    /\ calls[i].amount > 0
    /\ ReferredBy(calls[i].userId) # "none"
    /\ calls[j].res = "ok"
    /\ Len(db.billingHistory) = 1

Ends(i) ==
  /\ calls'[i].pc = "done"
  /\ i \in DOMAIN calls => calls[i].pc # "done"

\* Call i, ending in this step, ran one after another with all other calls:
\* none was in progress when it arrived and none has arrived since.
Sequential(i) == calls'[i].alone /\ Len(calls') = i

\* Call i takes a step that is not a committed write.
ReadsOnly(i) ==
  /\ i \in DOMAIN calls => calls'[i] # calls[i]
  /\ ~(i \in DOMAIN calls /\ calls[i].pc = "write" /\ calls'[i].res = "ok")

\* C4 (as amended): for a user with an active subscription whose request
\* passes the daily-quota check (the plan is not daily, or today's usage + n
\* is within plan.dailyCredits), consumeCredits(user, n) fails with
\* InsufficientCredits whenever n > the balance it reads and otherwise goes on
\* to its write, which on commit returns remainingCredits = that balance - n
\* and appends one ledger entry of -n; a failed attempt changes no table.
C4_BalanceCheck ==
  [][\A i \in DOMAIN calls' :
       calls'[i].op = "consumeCredits" =>
         LET c == calls'[i]
             balance == CreditSum(db, c.userId)
             k == Len(db.creditLedger)
         IN  /\ (i \in DOMAIN calls /\ calls[i].pc = "balance" /\ c.pc # "balance") =>
                  IF c.n > balance
                  THEN c.pc = "done" /\ c.res = "InsufficientCredits"
                  ELSE c.pc = "write" /\ c.avail = balance
             /\ (Commits(i, "consumeCredits") /\ c.res = "ok") =>
                  /\ c.out = calls[i].avail - c.n
                  /\ Len(db'.creditLedger) = k + 1
                  /\ SubSeq(db'.creditLedger, 1, k) = db.creditLedger
                  /\ db'.creditLedger[k + 1].userId = c.userId
                  /\ db'.creditLedger[k + 1].amount = 0 - c.n
             /\ (Ends(i) /\ Sequential(i) /\ c.res = "ok") =>
                  c.out = CreditSum(db, c.userId) - c.n
             /\ ReadsOnly(i) => db' = db
    ]_vars

\* with a balance of 2, consuming 1 returned 1 and consuming 10 then failed
C4_Witness ==
  \E i, j \in DOMAIN calls :
    /\ calls[i].op = "consumeCredits" /\ calls[i].res = "ok"
    /\ calls[i].n = 1 /\ calls[i].out = 1
    /\ calls[j].op = "consumeCredits" /\ calls[j].res = "InsufficientCredits"
    /\ calls[j].n = 10 /\ calls[j].avail = 1 /\ calls[j].alone
    /\ CreditSum(db, calls[j].userId) = 1

\* C4 (as claimed): for a user with an active subscription, consumeCredits(user, n),
\* run one after another with all other calls, fails with InsufficientCredits
\* whenever n > the current balance and otherwise succeeds returning the
\* balance - n (store errors aside).
C4_AsClaimed ==
  [][\A i \in DOMAIN calls' :
       (/\ calls'[i].op = "consumeCredits"
        /\ Ends(i) /\ Sequential(i)
        /\ calls'[i].res \notin {"NoActiveSubscription", "TransactionFailure"}) =>
          IF calls'[i].n > CreditSum(db, calls'[i].userId)
          THEN calls'[i].res = "InsufficientCredits"
          ELSE /\ calls'[i].res = "ok"
               /\ calls'[i].out = CreditSum(db, calls'[i].userId) - calls'[i].n
    ]_vars

\* C5: for a user on a daily plan, a consumeCredits call run one after another
\* with the other calls fails with DailyLimitExceeded when today's DailyUsage
\* count + n > plan.dailyCredits, and leaves the ledger and the DailyUsage rows
\* unchanged.
C5_DailyLimit ==
  [][\A i \in DOMAIN calls' :
       (/\ calls'[i].op = "consumeCredits"
        /\ calls'[i].alone /\ Len(calls') = i
        /\ calls'[i].subId # 0) =>
         LET c == calls'[i]
             plan == Plan(db.subscriptions[c.subId].planId)
             today == StartOfDay(now)
         IN  /\ i \notin DOMAIN calls =>
                  (plan.isDaily <=> c.pc = "dailyLimit")
             /\ (i \in DOMAIN calls /\ calls[i].pc = "dailyLimit" /\ c.pc # "dailyLimit"
                 /\ UsageCount(db, c.userId, today) + c.n > plan.dailyCredits) =>
                  /\ c.pc = "done"
                  /\ c.res = "DailyLimitExceeded"
                  /\ db'.creditLedger = db.creditLedger
                  /\ db'.dailyUsage = db.dailyUsage
    ]_vars

\* dailyCredits = 25: after consuming 20, consuming 10 on the same day failed
C5_Witness ==
  \E i \in DOMAIN calls :
    /\ calls[i].op = "consumeCredits"
    /\ calls[i].res = "DailyLimitExceeded"
    /\ calls[i].alone
    /\ calls[i].n = 10
    /\ calls[i].usage = 20
    /\ Plan(calls[i].planId).dailyCredits = 25
    /\ UsageCount(db, calls[i].userId, StartOfDay(now)) = 20
    /\ CreditSum(db, calls[i].userId) = 5

\* C6: a user's available balance (the sum of the user's ledger amounts) is
\* never negative.
C6_BalanceNeverNegative ==
  \A u \in Users : CreditSum(db, u) >= 0

\* C7: the DailyUsage count of a (user, day) never exceeds the dailyCredits of
\* the user's daily plan.
C7_UsageWithinDailyCredits ==
  \A r \in db.dailyUsage :
    \A id \in ActiveSubscriptions(db, r.userId) :
      Plan(db.subscriptions[id].planId).isDaily =>
        r.usageCount <= Plan(db.subscriptions[id].planId).dailyCredits

\* The renewal pass i renews, in this step, the subscription it scanned as s.
Renews(i, s) ==
  /\ i \in DOMAIN calls
  /\ calls[i].op = "renewDueSubscriptions"
  /\ calls[i].pc = "loop"
  /\ s \in calls[i].todo \ calls'[i].todo

RenewedIds(c) == {r.subscriptionId : r \in {x \in c.results : x.success}}

\* C8 (as amended): a renewDueSubscriptions call renews only subscriptions
\* that were due at its scan and each of them at most once; when no time has
\* elapsed since the scan and the subscription was overdue by less than one
\* billing period, its currentPeriodEnd is later than now after the renewal,
\* so that a call made immediately afterwards does not find it due.
C8_RenewedOncePerCall ==
  [][\A i \in DOMAIN calls : \A s \in (IF i \in DOMAIN calls THEN calls[i].todo ELSE {}) :
       Renews(i, s) =>
         /\ s.currentPeriodEnd <= calls[i].at
         /\ s.id \notin {r.subscriptionId : r \in calls[i].results}
         /\ s.id \notin {x.id : x \in calls'[i].todo}
         /\ (/\ s.id \in RenewedIds(calls'[i])
             /\ now = calls[i].at
             /\ s.currentPeriodEnd + PeriodMonths(s.billingCycle) * Month > now) =>
               /\ db'.subscriptions[s.id].currentPeriodEnd > now
               /\ s.id \notin {x.id : x \in DueSubscriptions(db', now)}
    ]_vars

\* a pass renewed a subscription and the pass made right after it, at the same
\* time, found nothing due
C8_Witness ==
  \E i, j \in DOMAIN calls :
    /\ i < j
    /\ calls[i].op = "renewDueSubscriptions" /\ calls[i].pc = "done"
    /\ calls[j].op = "renewDueSubscriptions" /\ calls[j].pc = "done"
    /\ calls[j].alone
    /\ calls[j].at = calls[i].at
    /\ RenewedIds(calls[i]) # {}
    /\ calls[j].results = {}

\* C8 (as claimed): after a call renews a subscription, however long it was
\* overdue, its currentPeriodEnd is later than now (no time having elapsed
\* since the scan), so that a call made immediately afterwards does not renew
\* it again.
C8_AsClaimed ==
  [][\A i \in DOMAIN calls : \A s \in (IF i \in DOMAIN calls THEN calls[i].todo ELSE {}) :
       (Renews(i, s) /\ s.id \in RenewedIds(calls'[i]) /\ now = calls[i].at) =>
          /\ db'.subscriptions[s.id].currentPeriodEnd > now
          /\ s.id \notin {x.id : x \in DueSubscriptions(db', now)}
    ]_vars

\* C11: in renewDueSubscriptions a failure while renewing one subscription
\* does not stop the pass: the failed subscription is reported with success =
\* false and no table changes for it, every other scanned subscription is
\* still processed, the pass returns normally, and then renewed + failed is
\* the number of subscriptions the scan found due.
C11_FailureIsolated ==
  [][\A i \in DOMAIN calls' :
       calls'[i].op = "renewDueSubscriptions" =>
         LET c == calls'[i]
             renewed == {r \in c.results : r.success}
             failed == {r \in c.results : ~r.success}
         IN  /\ i \notin DOMAIN calls =>
                  /\ {s.id : s \in c.todo}
                       = {id \in DOMAIN db.subscriptions :
                            /\ db.subscriptions[id].status = "active"
                            /\ ~db.subscriptions[id].cancelAtPeriodEnd
                            /\ db.subscriptions[id].currentPeriodEnd <= now}
                  /\ c.due = Cardinality(c.todo)
                  /\ c.results = {}
             /\ \A s \in (IF i \in DOMAIN calls THEN calls[i].todo ELSE {}) :
                  Renews(i, s) =>
                    /\ c.todo = calls[i].todo \ {s}
                    /\ \E r \in c.results \ calls[i].results :
                         /\ r.subscriptionId = s.id
                         /\ c.results = calls[i].results \cup {r}
                         /\ ~r.success => db' = db
                    /\ c.pc = IF c.todo = {} THEN "done" ELSE "loop"
             /\ c.pc = "done" =>
                  /\ c.res = "ok"
                  /\ c.todo = {}
                  /\ Cardinality(renewed) + Cardinality(failed) = c.due
                  /\ Cardinality({r.subscriptionId : r \in c.results}) = c.due
    ]_vars

\* a pass over two due subscriptions failed on the first it took and renewed
\* the other: the failed one's period is as signup left it
C11_Witness ==
  \E i \in DOMAIN calls :
    /\ calls[i].op = "renewDueSubscriptions"
    /\ calls[i].pc = "done" /\ calls[i].res = "ok"
    /\ calls[i].due = 2
    /\ \E f, r \in calls[i].results :
         /\ ~f.success /\ r.success
         /\ db.subscriptions[f.subscriptionId].currentPeriodEnd <= calls[i].at
         /\ db.subscriptions[r.subscriptionId].currentPeriodEnd = r.newPeriodEnd
         /\ Len(db.creditLedger) = 1
         /\ db.creditLedger[1].subscriptionId = r.subscriptionId

\* The renewal pass i commits, in this step, the renewal of the subscription
\* it scanned as s.
RenewalCommits(i, s) ==
  /\ Renews(i, s)
  /\ \E r \in calls'[i].results \ calls[i].results : r.success

\* C12: no renewal transaction extends the period of a subscription, or grants
\* it renewal credits, while its cancelAtPeriodEnd flag is true at the moment
\* the transaction commits, also when cancelSubscription runs between the scan
\* and that transaction.
C12_CanceledNotRenewed ==
  [][\A i \in DOMAIN calls : \A s \in (IF i \in DOMAIN calls THEN calls[i].todo ELSE {}) :
       RenewalCommits(i, s) => ~db.subscriptions[s.id].cancelAtPeriodEnd
    ]_vars

\* C13: each committed renewal sets currentPeriodStart to the currentPeriodEnd
\* the subscription had immediately before the commit and currentPeriodEnd to
\* that value plus one billing unit (1 month, 12 if yearly), also when a
\* confirmPayment for the same user commits between the scan and the renewal.
C13_PeriodsContiguous ==
  [][\A i \in DOMAIN calls : \A s \in (IF i \in DOMAIN calls THEN calls[i].todo ELSE {}) :
       RenewalCommits(i, s) =>
         LET before == db.subscriptions[s.id]
             after == db'.subscriptions[s.id]
             months == IF before.billingCycle = "yearly" THEN 12 ELSE 1
         IN  /\ after.currentPeriodStart = before.currentPeriodEnd
             /\ after.currentPeriodEnd = before.currentPeriodEnd + months * Month
    ]_vars

\* renewal grants of subscription id in the ledger
RenewalGrants(d, id) ==
  Len(SelectSeq(d.creditLedger,
        LAMBDA e : e.subscriptionId = id /\ e.description = "renewal"))

\* C14: no renewal period is granted twice: whenever renewals add grants for a
\* subscription to the ledger they advance its period by as many billing
\* periods, also when two passes run concurrently over the same subscription.
C14_OneGrantPerPeriod ==
  [][\A i \in DOMAIN calls : \A s \in (IF i \in DOMAIN calls THEN calls[i].todo ELSE {}) :
       Renews(i, s) =>
         (RenewalGrants(db', s.id) - RenewalGrants(db, s.id))
             * PeriodMonths(db.subscriptions[s.id].billingCycle) * Month
           = db'.subscriptions[s.id].currentPeriodEnd
               - db.subscriptions[s.id].currentPeriodEnd
    ]_vars

\* C15: a successful cancelSubscription(user) sets cancelAtPeriodEnd = true
\* and canceledAt = now on the user's active subscription, leaves its status,
\* plan, billing cycle and period and every other subscription unchanged, and
\* changes no CreditLedger, DailyUsage, BillingHistory or ReferralStats row;
\* afterwards consumeCredits still finds the subscription and succeeds when
\* the balance covers the request.
C15_CancelOnlyFlags ==
  [][\A i \in DOMAIN calls' :
       /\ (i \in DOMAIN calls /\ calls[i].op = "cancelSubscription"
           /\ calls[i].pc = "update" /\ calls'[i].res = "ok") =>
            LET id == calls[i].subId
                before == db.subscriptions[id]
                after == db'.subscriptions[id]
            IN  /\ before.userId = calls[i].userId
                /\ after.cancelAtPeriodEnd
                /\ after.canceledAt = {now}
                /\ after.status = before.status
                /\ after.planId = before.planId
                /\ after.billingCycle = before.billingCycle
                /\ after.currentPeriodStart = before.currentPeriodStart
                /\ after.currentPeriodEnd = before.currentPeriodEnd
                /\ after.userId = before.userId
                /\ DOMAIN db'.subscriptions = DOMAIN db.subscriptions
                /\ \A x \in DOMAIN db.subscriptions \ {id} :
                     db'.subscriptions[x] = db.subscriptions[x]
                /\ db'.creditLedger = db.creditLedger
                /\ db'.dailyUsage = db.dailyUsage
                /\ db'.billingHistory = db.billingHistory
                /\ db'.referralStats = db.referralStats
       /\ (/\ calls'[i].op = "consumeCredits"
           /\ Ends(i) /\ Sequential(i)
           /\ \E id \in ActiveSubscriptions(db, calls'[i].userId) :
                /\ db.subscriptions[id].cancelAtPeriodEnd
                /\ ~Plan(db.subscriptions[id].planId).isDaily
           /\ calls'[i].n <= CreditSum(db, calls'[i].userId)) =>
            calls'[i].res \in {"ok", "TransactionFailure"}
       /\ (/\ calls'[i].op = "consumeCredits"
           /\ i \notin DOMAIN calls
           /\ \E id \in DOMAIN db.subscriptions :
                /\ db.subscriptions[id].userId = calls'[i].userId
                /\ db.subscriptions[id].canceledAt # {}) =>
            calls'[i].res # "NoActiveSubscription"
    ]_vars

\* a user with a balance of 2 cancelled and then consumed a credit
C15_Witness ==
  \E i, j \in DOMAIN calls :
    /\ i < j
    /\ calls[i].op = "cancelSubscription" /\ calls[i].res = "ok"
    /\ calls[j].op = "consumeCredits" /\ calls[j].res = "ok"
    /\ calls[j].userId = calls[i].userId
    /\ calls[j].alone
    /\ calls[j].out = 1
    /\ db.subscriptions[calls[i].subId].cancelAtPeriodEnd

\* C16: the CreditLedger is append-only: no step of confirmPayment,
\* consumeCredits, cancelSubscription, getSubscriptionDetails or
\* renewDueSubscriptions changes or removes an entry; every entry is there,
\* with the same user, amount and type, in the next state.
C16_LedgerAppendOnly ==
  [][/\ Len(db'.creditLedger) >= Len(db.creditLedger)
     /\ \A k \in DOMAIN db.creditLedger :
          /\ db'.creditLedger[k].userId = db.creditLedger[k].userId
          /\ db'.creditLedger[k].amount = db.creditLedger[k].amount
          /\ db'.creditLedger[k].type = db.creditLedger[k].type
    ]_vars

\* the ledger holds a payment grant, a renewal grant and a consumption
C16_Witness ==
  \E a, b, c \in DOMAIN db.creditLedger :
    /\ a < b /\ b < c
    /\ db.creditLedger[a].userId = db.creditLedger[c].userId
    /\ db.creditLedger[b].userId = db.creditLedger[c].userId
    /\ {db.creditLedger[a].description, db.creditLedger[b].description}
         = {"subscription", "renewal"}
    /\ db.creditLedger[c].type = "consumed"

\* successful confirmations of user u that carried payment id x
Confirmed(u, x) ==
  {i \in DOMAIN calls :
     /\ calls[i].op = "confirmPayment" /\ calls[i].res = "ok"
     /\ calls[i].userId = u /\ calls[i].externalPaymentId = x}

\* C20: confirmPayment does not check the external payment identifier for
\* prior existence: every successful confirmation, also one carrying an
\* identifier already in BillingHistory, appends a credit grant and a
\* BillingHistory row, so that two confirmations of one payment raise the
\* balance twice.
C20_DuplicateGrantsTwice ==
  \A u \in Users :
    /\ \A x \in ExternalPaymentIds :
         Len(SelectSeq(db.billingHistory,
               LAMBDA b : b.userId = u /\ b.externalPaymentId = x))
           = Cardinality(Confirmed(u, x))
    /\ Len(SelectSeq(db.creditLedger,
              LAMBDA e : e.userId = u /\ e.type = "granted"))
         = Cardinality(UNION {Confirmed(u, x) : x \in ExternalPaymentIds})
    /\ CreditSum(db, u)
         = Plan("Pro").dailyCredits
             * Cardinality(UNION {Confirmed(u, x) : x \in ExternalPaymentIds})

\* one payment was confirmed twice, one confirmation after the other: the
\* user holds two grants and two billing records of that payment
C20_Witness ==
  \E i, j \in DOMAIN calls :
    /\ i < j
    /\ calls[j].alone
    /\ calls[i].op = "confirmPayment" /\ calls[i].res = "ok"
    /\ calls[j].op = "confirmPayment" /\ calls[j].res = "ok"
    /\ calls[i].userId = calls[j].userId
    /\ calls[i].externalPaymentId = calls[j].externalPaymentId
    /\ CreditSum(db, calls[i].userId) = 2 * Plan("Pro").dailyCredits
    /\ Len(db.billingHistory) = 2
    /\ db.billingHistory[1].externalPaymentId = db.billingHistory[2].externalPaymentId

\* C17: after a successful signup (setupNewUser) of a new identity the user's
\* balance, the sum of the user's ledger entries, is the starter credits of
\* the free plan (2).
C17_StarterGrant ==
  [][\A i \in DOMAIN calls :
       Commits(i, "setupNewUser") /\ calls'[i].res = "ok" =>
         CreditSum(db', calls[i].userId) = Plan("Free").monthlyCredits
    ]_vars

\* C18: signup is atomic: a successful setupNewUser of a new identity creates
\* exactly one User, one ReferralStats row for it and one active Subscription
\* on the free plan, and adds 1 to the referrer's totalUsersSigned when a
\* referrer is given; when a write fails nothing is persisted; a request
\* answered before the writes changes nothing.
C18_SignupAtomic ==
  [][\A i \in DOMAIN calls' :
       calls'[i].op = "setupNewUser" =>
         /\ Commits(i, "setupNewUser") =>
              LET u == calls[i].userId
                  R == calls[i].referredById
                  id == Len(db.subscriptions) + 1
              IN  IF calls'[i].res = "ok"
                  THEN /\ u \notin DOMAIN db.users
                       /\ DOMAIN db'.users = DOMAIN db.users \cup {u}
                       /\ \A x \in DOMAIN db.users : db'.users[x] = db.users[x]
                       /\ db'.users[u].referredById = R
                       /\ u \notin DOMAIN db.referralStats
                       /\ DOMAIN db'.referralStats = DOMAIN db.referralStats \cup {u}
                       /\ db'.referralStats[u].totalUsersSigned = 0
                       /\ Len(db'.subscriptions) = id
                       /\ SubSeq(db'.subscriptions, 1, id - 1) = db.subscriptions
                       /\ {x \in DOMAIN db'.subscriptions :
                             db'.subscriptions[x].userId = u} = {id}
                       /\ db'.subscriptions[id].status = "active"
                       /\ db'.subscriptions[id].planId = "Free"
                       /\ \A x \in DOMAIN db.referralStats :
                            db'.referralStats[x] =
                              IF x = R
                              THEN [db.referralStats[x] EXCEPT
                                      !.totalUsersSigned = @ + 1]
                              ELSE db.referralStats[x]
                       /\ (calls[i].referenceId # "none") => R = calls[i].referenceId
                  ELSE /\ calls'[i].res = "TransactionFailure"
                       /\ db' = db
         /\ ReadsOnly(i) => db' = db
    ]_vars

\* u3 signed up with u1's reference code, after a signup of u3 had failed in
\* its transaction: u1 counts two signups
C18_Witness ==
  \E i, j \in DOMAIN calls :
    /\ calls[i].op = "setupNewUser" /\ calls[i].res = "TransactionFailure"
    /\ calls[j].op = "setupNewUser" /\ calls[j].res = "ok"
    /\ calls[j].userId = "u3" /\ calls[j].referenceId = "u1"
    /\ db.users["u3"].referredById = "u1"
    /\ db.referralStats["u1"].totalUsersSigned = 2
    /\ "u3" \in DOMAIN db.referralStats
    /\ Cardinality(ActiveSubscriptions(db, "u3")) = 1

\* every row of table rows has a user
Owned(d, rows) == \A k \in DOMAIN rows : rows[k].userId \in DOMAIN d.users

C21_UpdateInPlace ==
  [][\A i \in DOMAIN calls :
       Commits(i, "confirmPayment") /\ calls'[i].res = "ok" =>
         LET c == calls[i]
             u == c.userId
             found == c.subId
             sid == calls'[i].subId
             row == db'.subscriptions[sid]
             months == IF c.billingCycle = "yearly" THEN 12 ELSE 1
             n == Len(db.subscriptions)
             b == Len(db.billingHistory)
         IN  /\ sid \in DOMAIN db'.subscriptions
             /\ row = [userId |-> u, planId |-> c.planCode,
                       billingCycle |-> c.billingCycle, status |-> "active",
                       currentPeriodStart |-> c.paidAt,
                       currentPeriodEnd |-> c.paidAt + months * Month,
                       cancelAtPeriodEnd |-> FALSE, canceledAt |-> {}]
             /\ IF found # 0
                THEN /\ sid = found
                     /\ Len(db'.subscriptions) = n
                     /\ db.subscriptions[found].userId = u
                     /\ db.subscriptions[found].status = "active"
                ELSE /\ sid = n + 1
                     /\ Len(db'.subscriptions) = n + 1
             /\ \A x \in DOMAIN db.subscriptions \ {sid} :
                  db'.subscriptions[x] = db.subscriptions[x]
             /\ ActiveSubscriptions(db', u) = ActiveSubscriptions(db, u) \cup {sid}
             /\ Len(db'.billingHistory) = b + 1
             /\ SubSeq(db'.billingHistory, 1, b) = db.billingHistory
             /\ db'.billingHistory[b + 1].status = "completed"
             /\ db'.billingHistory[b + 1].userId = u
             /\ db'.billingHistory[b + 1].subscriptionId = sid
             /\ db'.billingHistory[b + 1].paymentDate = c.paidAt
             /\ Sequential(i) =>
                  /\ (found # 0) <=> (ActiveSubscriptions(db, u) # {})
                  /\ Cardinality(ActiveSubscriptions(db, u)) <= 1 =>
                       ActiveSubscriptions(db', u) = {sid}
    ]_vars

\* a user without subscription confirmed a monthly plan and then, one call
\* after the other, a yearly one: the second call rewrote the row the first
\* had created
C21_Witness ==
  \E i, j \in DOMAIN calls :
    /\ i < j
    /\ calls[j].alone
    /\ calls[i].op = "confirmPayment" /\ calls[i].res = "ok"
    /\ calls[j].op = "confirmPayment" /\ calls[j].res = "ok"
    /\ calls[i].userId = calls[j].userId
    /\ calls[i].billingCycle = "monthly" /\ calls[j].billingCycle = "yearly"
    /\ calls[i].planCode # calls[j].planCode
    /\ calls[i].subId = Len(db.subscriptions)
    /\ calls[j].subId = calls[i].subId
    /\ db.subscriptions[calls[j].subId].planId = calls[j].planCode
    /\ db.subscriptions[calls[j].subId].currentPeriodEnd
         = calls[j].paidAt + 12 * Month
    /\ Len(db.billingHistory) = 2

\* Call i arrives in this step.
Arrives(i, op) ==
  /\ i \notin DOMAIN calls
  /\ i \in DOMAIN calls'
  /\ calls'[i].op = op

\* C22: confirmPayment fails with a not-found error when the user identity
\* resolves to no User or when planCode is the id or name of no Plan, and then
\* creates no User and changes no Subscription, CreditLedger, BillingHistory
\* or ReferralStats row; no confirmation ever creates a User.
C22_ConfirmNotFound ==
  [][\A i \in DOMAIN calls' :
       calls'[i].op = "confirmPayment" =>
         /\ Arrives(i, "confirmPayment") =>
              LET c == calls'[i] IN
                /\ c.userId \notin DOMAIN db.users =>
                     c.pc = "done" /\ c.res = "UserNotFound"
                /\ c.planCode \notin {Plan(p).id : p \in PlanIds} =>
                     c.pc = "done" /\ c.res \in {"UserNotFound", "PlanNotFound"}
                /\ (c.userId \in DOMAIN db.users /\ c.planCode \in PlanIds) =>
                     c.pc # "done"
                /\ db' = db
         /\ (i \in DOMAIN calls /\ calls'[i] # calls[i]) =>
              /\ calls[i].res = "none"
              /\ db'.users = db.users
    ]_vars

\* confirmations failed for an identity without User row and for an unknown
\* plan code, next to one that succeeded
C22_Witness ==
  \E i, j, k \in DOMAIN calls :
    /\ calls[i].op = "confirmPayment" /\ calls[i].res = "UserNotFound"
    /\ calls[i].userId = "u3"
    /\ calls[j].op = "confirmPayment" /\ calls[j].res = "PlanNotFound"
    /\ calls[j].planCode = "Gold" /\ calls[j].userId = "u2"
    /\ calls[k].op = "confirmPayment" /\ calls[k].res = "ok"
    /\ Len(db.billingHistory) = 1
    /\ Len(db.creditLedger) = 1

\* C27: consumeCredits and cancelSubscription fail with a not-found error when
\* the user does not exist and with NoActiveSubscription when the user has no
\* subscription with status 'active', and then no CreditLedger, DailyUsage or
\* Subscription row is created or changed.
C27_NoUserNoSubscription ==
  [][\A i \in DOMAIN calls' :
       (Arrives(i, "consumeCredits") \/ Arrives(i, "cancelSubscription")) =>
         LET c == calls'[i]
             active == {id \in DOMAIN db.subscriptions :
                          /\ db.subscriptions[id].userId = c.userId
                          /\ db.subscriptions[id].status = "active"}
         IN  /\ db' = db
             /\ IF c.userId \notin DOMAIN db.users
                THEN c.pc = "done" /\ c.res = "UserNotFound"
                ELSE IF active = {}
                THEN c.pc = "done" /\ c.res = "NoActiveSubscription"
                ELSE c.pc # "done" /\ c.subId \in active
    ]_vars

\* a consumption failed for an identity without User row and a cancellation
\* for a user without subscription; no table has a row of theirs
C27_Witness ==
  \E i, j \in DOMAIN calls :
    /\ calls[i].op = "consumeCredits" /\ calls[i].res = "UserNotFound"
    /\ calls[j].op = "cancelSubscription" /\ calls[j].res = "NoActiveSubscription"
    /\ calls[j].userId = "u2"
    /\ ActiveSubscriptions(db, "u2") = {}
    /\ db.creditLedger = << >>
    /\ db.dailyUsage = {}

\* C23: on a daily plan the quota is replenished every calendar day: on a new
\* day a user whose usage of the day before reached plan.dailyCredits can
\* again consume up to plan.dailyCredits credits, with no payment or renewal
\* in between (a consumption run on its own, within what is left of today's
\* quota, fails only if the store fails).
C23_DailyQuotaReplenished ==
  [][\A i \in DOMAIN calls :
       LET c == calls'[i]
           today == StartOfDay(now)
           dailyCredits == Plan(c.planId).dailyCredits
       IN  (/\ c.op = "consumeCredits"
            /\ calls[i].pc # "done"
            /\ Ends(i)
            /\ Sequential(i)
            /\ Plan(c.planId).isDaily
            /\ today >= TicksPerDay
            /\ UsageCount(db, c.userId, today - TicksPerDay) = dailyCredits
            /\ UsageCount(db, c.userId, today) + c.n <= dailyCredits)
           => c.res \in {"ok", "TransactionFailure"}
    ]_vars

\* C24: getSubscriptionDetails changes no persisted row; for a user with an
\* active subscription it returns dailyUsage = the count of today's DailyUsage
\* row (0 without one), dailyLimit = plan.dailyCredits for a daily plan and
\* null otherwise, and at most 10 ledger entries, newest first (the newest
\* ones of the subscription it found); for a user without active subscription
\* it returns success with subscription null.
C24_DetailsReadOnly ==
  [][\A i \in DOMAIN calls' :
       (calls'[i].op = "getSubscriptionDetails"
          /\ (i \in DOMAIN calls => calls'[i] # calls[i])) =>
         LET c == calls'[i]
             u == c.userId
             rc == c.recentCredits
             mine == {k \in DOMAIN db.creditLedger :
                        db.creditLedger[k].subscriptionId = c.subId}
             today == {r \in db.dailyUsage :
                         r.userId = u /\ r.date = StartOfDay(now)}
         IN  /\ db' = db
             /\ (Arrives(i, "getSubscriptionDetails")
                   /\ u \in DOMAIN db.users /\ ActiveSubscriptions(db, u) = {}) =>
                  c.pc = "done" /\ c.res = "ok" /\ c.subId = 0 /\ c.out = 0
             /\ (Arrives(i, "getSubscriptionDetails")
                   /\ u \in DOMAIN db.users /\ ActiveSubscriptions(db, u) # {}) =>
                  /\ c.pc # "done"
                  /\ c.subId \in ActiveSubscriptions(db, u)
                  /\ c.dailyLimit =
                       IF Plan(db.subscriptions[c.subId].planId).isDaily
                       THEN Plan(db.subscriptions[c.subId].planId).dailyCredits
                       ELSE "null"
                  /\ Len(rc) <= 10
                  /\ Len(rc) = 10 \/ Len(rc) = Cardinality(mine)
                  /\ \A j \in DOMAIN rc : rc[j] \in mine
                  /\ \A j \in DOMAIN rc : \A k \in DOMAIN rc :
                       j < k => rc[j] > rc[k]
                  /\ \A k \in mine : \A j \in DOMAIN rc :
                       k > rc[j] => \E l \in DOMAIN rc : rc[l] = k
             /\ i \in DOMAIN calls =>
                  /\ c.dailyLimit = calls[i].dailyLimit
                  /\ c.recentCredits = calls[i].recentCredits
             /\ (i \in DOMAIN calls /\ c.pc = "done") =>
                  /\ c.res = "ok"
                  /\ IF today = {} THEN c.usage = 0
                     ELSE \A r \in today : c.usage = r.usageCount
    ]_vars

\* details returned for a daily subscription with 11 ledger entries: the 10
\* newest, the day's usage of 10 and the limit of 25
C24_Witness ==
  \E i \in DOMAIN calls :
    /\ calls[i].op = "getSubscriptionDetails"
    /\ calls[i].res = "ok"
    /\ calls[i].subId # 0
    /\ calls[i].recentCredits = <<11, 10, 9, 8, 7, 6, 5, 4, 3, 2>>
    /\ calls[i].dailyLimit = 25
    /\ calls[i].usage = 10
    /\ Len(db.creditLedger) = 11

\* C25: early or duplicate renewal triggers that do not overlap are safe: a
\* renewDueSubscriptions pass (run while no other call is in progress) leaves
\* unchanged every subscription that is not due (currentPeriodEnd > now), that
\* has cancelAtPeriodEnd = true or whose status is not 'active', and appends
\* no ledger entry for its user.
C25_NotDueUntouched ==
  [][\A i \in DOMAIN calls' :
       (calls'[i].op = "renewDueSubscriptions"
          /\ (i \in DOMAIN calls => calls'[i] # calls[i])
          /\ Sequential(i)) =>
         \A id \in SubscriptionIds(db) :
           ~IsDue(db.subscriptions[id], calls'[i].at) =>
             /\ db'.subscriptions[id] = db.subscriptions[id]
             /\ LedgerOf(db', db.subscriptions[id].userId)
                  = LedgerOf(db, db.subscriptions[id].userId)
    ]_vars

C28_InvalidReferrer ==
  [][\A i \in DOMAIN calls' :
       calls'[i].op = "setupNewUser" =>
         LET c == calls'[i]
             resolved == {x \in DOMAIN db.referralStats : x = c.referenceId}
         IN  /\ (Arrives(i, "setupNewUser") /\ c.userId \notin DOMAIN db.users
                    /\ c.referenceId # "none") =>
                  c.pc = "referrer" /\ db' = db
             /\ (i \in DOMAIN calls /\ calls[i].pc = "referrer" /\ c # calls[i]) =>
                  IF resolved = {}
                  THEN /\ c.pc = "done"
                       /\ c.res = "InvalidReferrer"
                       /\ db' = db
                  ELSE c.pc = "write" /\ c.referredById \in resolved
             /\ (i \in DOMAIN calls /\ calls[i].res = "InvalidReferrer") =>
                  c = calls[i]
    ]_vars

\* a signup with an unknown reference code has failed; the identity has no
\* row and the referrers' statistics are as they were
C28_Witness ==
  \E i \in DOMAIN calls :
    /\ calls[i].op = "setupNewUser"
    /\ calls[i].res = "InvalidReferrer"
    /\ calls[i].referenceId = "AURA-REF-unknown"
    /\ calls[i].userId \notin DOMAIN db.users
    /\ calls[i].userId \notin DOMAIN db.referralStats
    /\ \A id \in DOMAIN db.subscriptions :
         db.subscriptions[id].userId # calls[i].userId
    /\ db.referralStats["u1"].totalUsersSigned = 1

\* C29: there is at most one DailyUsage row per (user, calendar day) in every
\* state, also after concurrent consumeCredits calls that both find no row
\* for today, and the usage count of a row never decreases.
C29_OneUsageRowPerDay ==
  [][/\ \A r1 \in db'.dailyUsage : \A r2 \in db'.dailyUsage :
          (r1.userId = r2.userId /\ r1.date = r2.date) => r1 = r2
     /\ \A r \in db.dailyUsage : \E r2 \in db'.dailyUsage :
          /\ r2.userId = r.userId
          /\ r2.date = r.date
          /\ r2.usageCount >= r.usageCount
    ]_vars

\* two consumptions that both read no usage for today have both succeeded;
\* the day has one row, with the sum of the two
C29_Witness ==
  \E i, j \in DOMAIN calls :
    /\ i < j
    /\ calls[i].op = "consumeCredits" /\ calls[i].res = "ok"
    /\ calls[j].op = "consumeCredits" /\ calls[j].res = "ok"
    /\ calls[i].userId = calls[j].userId
    /\ calls[i].n # calls[j].n
    /\ Plan(calls[i].planId).isDaily /\ Plan(calls[j].planId).isDaily
    /\ calls[i].usage = 0 /\ calls[j].usage = 0
    /\ ~calls[j].alone
    /\ Cardinality(db.dailyUsage) = 1
    /\ \A r \in db.dailyUsage :
         r.userId = calls[i].userId /\ r.usageCount = calls[i].n + calls[j].n

\* C30: when operations run one at a time, after any sequence of signups,
\* confirmPayment, cancelSubscription, consumeCredits and
\* renewDueSubscriptions calls every user has at most one subscription with
\* status 'active' (no unique index is consulted: every create is a plain
\* insert).
C30_OneActiveWhenSequential ==
  \A u \in DOMAIN db.users :
    \A id1 \in DOMAIN db.subscriptions : \A id2 \in DOMAIN db.subscriptions :
      (/\ db.subscriptions[id1].userId = u /\ db.subscriptions[id1].status = "active"
       /\ db.subscriptions[id2].userId = u /\ db.subscriptions[id2].status = "active")
      => id1 = id2

\* one identity has signed up, paid, cancelled and paid again, one call after
\* the other, and has one active subscription
C30_Witness ==
  /\ Len(calls) = 4
  /\ \A j \in DOMAIN calls : calls[j].alone /\ calls[j].res = "ok"
  /\ calls[1].op = "setupNewUser" /\ calls[1].userId = "u3"
  /\ calls[2].op = "confirmPayment" /\ calls[2].userId = "u3"
  /\ calls[3].op = "cancelSubscription" /\ calls[3].userId = "u3"
  /\ calls[4].op = "confirmPayment" /\ calls[4].userId = "u3"
  /\ Cardinality(ActiveSubscriptions(db, "u3")) = 1
  /\ ~db.subscriptions[calls[4].subId].cancelAtPeriodEnd

\* the user has an active subscription to a daily plan
OnDailyPlan(d, u) ==
  \E id \in ActiveSubscriptions(d, u) : Plan(d.subscriptions[id].planId).isDaily

\* total of the amounts of the 'consumed' entries of user u in a ledger
ConsumedSum(ledger, u) ==
  0 - SumAmounts(SelectSeq(ledger, LAMBDA e : e.userId = u /\ e.type = "consumed"))

\* C31: the consumption write is atomic across its two aggregates: for a user
\* who is on a daily plan every committed consumeCredits(n) adds both a ledger
\* entry of -n and n to today's DailyUsage count, so that the count of (user,
\* day) is the total consumed by the user on that day while on a daily plan
\* (every step adds to the count of a day exactly what it adds to the
\* consumption of a user who is on a daily plan on that day, and nothing
\* otherwise); a failed upsert leaves no ledger entry behind.
C31_UsageMatchesLedger ==
  [][/\ \A u \in Users :
          LET consumed == ConsumedSum(db'.creditLedger, u)
                            - ConsumedSum(db.creditLedger, u)
              today == StartOfDay(now)
          IN  /\ UsageCount(db', u, today) - UsageCount(db, u, today)
                   = IF OnDailyPlan(db, u) THEN consumed ELSE 0
              /\ \A r \in db.dailyUsage :
                   (r.userId = u /\ r.date # today) => r \in db'.dailyUsage
     /\ \A i \in DOMAIN calls :
          Commits(i, "consumeCredits") =>
            IF calls'[i].res = "ok"
            THEN /\ Len(db'.creditLedger) = Len(db.creditLedger) + 1
                 /\ db'.creditLedger[Len(db'.creditLedger)].amount = 0 - calls[i].n
            ELSE db' = db
    ]_vars

\* C32: in every state each CreditLedger entry of type 'granted' has a
\* positive amount and each entry of type 'consumed' a negative one, for every
\* plan of the catalog and every amount consumeCredits accepts.
C32_SignedAmounts ==
  \A k \in DOMAIN db.creditLedger :
    LET e == db.creditLedger[k] IN
      /\ e.type \in {"granted", "consumed"}
      /\ e.type = "granted" => e.amount > 0
      /\ e.type = "consumed" => e.amount < 0

\* the ledger holds the grant of a payment, a consumption and the grant of a
\* renewal
C32_Witness ==
  \E j, k, l \in DOMAIN db.creditLedger :
    /\ db.creditLedger[j].type = "granted"
    /\ db.creditLedger[j].description = "subscription"
    /\ db.creditLedger[j].amount = 1000
    /\ db.creditLedger[k].type = "consumed"
    /\ db.creditLedger[k].amount = 0 - 20
    /\ db.creditLedger[l].type = "granted"
    /\ db.creditLedger[l].description = "renewal"

\* C33: the remainingCredits returned by a successful consumeCredits(n) is
\* the balance read at its check step minus n, not a new query: it is off the
\* user's ledger sum after the call by exactly what was committed to the
\* user's ledger between that read and the call's commit, so it differs from
\* the sum whenever a grant or a consumption was committed in between.
C33_RemainingFromSnapshot ==
  [][\A i \in DOMAIN calls :
       (Commits(i, "consumeCredits") /\ calls'[i].res = "ok") =>
         LET c == calls[i]
             u == c.userId
             remainingCredits == calls'[i].out
         IN  /\ remainingCredits = c.avail - c.n
             /\ CreditSum(db', u) - remainingCredits = CreditSum(db, u) - c.avail
             /\ CreditSum(db, u) # c.avail => remainingCredits # CreditSum(db', u)
    ]_vars

\* the only consumption read a balance of 2, a second grant of 2 was committed
\* and the consumption of 1 then returned remainingCredits 1, the sum being 3
C33_Witness ==
  \E i \in DOMAIN calls :
    /\ calls[i].op = "consumeCredits" /\ calls[i].res = "ok"
    /\ \A j \in DOMAIN calls : calls[j].op = "consumeCredits" => j = i
    /\ calls[i].avail = 2 /\ calls[i].n = 1 /\ calls[i].out = 1
    /\ CreditSum(db, calls[i].userId) = 3
    /\ Len(db.creditLedger) = 3
    /\ db.creditLedger[3].type = "consumed"

\* C34: the credits granted by a renewal are the quota (dailyCredits if
\* isDaily, else monthlyCredits) of the plan the subscription references when
\* the renewal transaction commits, also when a confirmPayment that changes
\* the user's plan commits between the pass's scan and that transaction.
C34_RenewalGrantsCurrentPlan ==
  [][\A i \in DOMAIN calls : \A s \in (IF i \in DOMAIN calls THEN calls[i].todo ELSE {}) :
       RenewalCommits(i, s) =>
         LET plan == Plan(db.subscriptions[s.id].planId)
             quota == IF plan.isDaily THEN plan.dailyCredits ELSE plan.monthlyCredits
             grant == db'.creditLedger[Len(db'.creditLedger)]
         IN  /\ Len(db'.creditLedger) = Len(db.creditLedger) + 1
             /\ grant.subscriptionId = s.id
             /\ grant.type = "granted"
             /\ grant.amount = quota
    ]_vars

\* C35: a consumeCredits request on a daily plan that violates both limits
\* (today's usage + n > plan.dailyCredits and n > the balance) is answered
\* DailyLimitExceeded, the daily-quota check running before the balance check;
\* a request on a non-daily plan (the plan of the subscription it found) goes
\* to the balance check at once and creates or changes no DailyUsage row.
C35_DailyCheckFirst ==
  [][\A i \in DOMAIN calls' :
       (calls'[i].op = "consumeCredits"
          /\ (i \in DOMAIN calls => calls'[i] # calls[i])) =>
         LET c == calls'[i]
             u == c.userId
             todayUsage == {r \in db.dailyUsage :
                              r.userId = u /\ r.date = StartOfDay(now)}
             over == \E r \in todayUsage :
                       r.usageCount + c.n > Plan(c.planId).dailyCredits
         IN  /\ (Arrives(i, "consumeCredits") /\ c.subId # 0) =>
                  /\ c.planId = db.subscriptions[c.subId].planId
                  /\ c.pc = IF Plan(c.planId).isDaily THEN "dailyLimit" ELSE "balance"
                  /\ db' = db
             /\ (i \in DOMAIN calls /\ calls[i].pc = "dailyLimit") =>
                  /\ Plan(c.planId).isDaily
                  /\ db' = db
                  /\ IF over \/ (todayUsage = {} /\ c.n > Plan(c.planId).dailyCredits)
                     THEN c.pc = "done" /\ c.res = "DailyLimitExceeded"
                     ELSE c.pc = "balance"
             /\ (i \in DOMAIN calls /\ c.res = "InsufficientCredits") =>
                  /\ calls[i].pc = "balance"
                  /\ Plan(c.planId).isDaily =>
                       c.usage + c.n <= Plan(c.planId).dailyCredits
             /\ (i \in DOMAIN calls /\ calls[i].pc = "write"
                   /\ ~Plan(c.planId).isDaily) =>
                  db'.dailyUsage = db.dailyUsage
    ]_vars

\* on the daily plan, with 20 of 25 used today and a balance of 5, a
\* consumption of 10 was answered DailyLimitExceeded
C35_Witness ==
  \E i \in DOMAIN calls :
    /\ calls[i].op = "consumeCredits"
    /\ calls[i].res = "DailyLimitExceeded"
    /\ calls[i].alone
    /\ calls[i].usage = 20 /\ calls[i].n = 10
    /\ CreditSum(db, calls[i].userId) = 5
    /\ Len(calls) = i

\* every subscription is caught up: its period ends after now, and by less
\* than a billing period
CaughtUp ==
  \A id \in SubscriptionIds(db) :
    LET s == db.subscriptions[id] IN
      /\ s.currentPeriodEnd > now
      /\ s.currentPeriodEnd - PeriodMonths(s.billingCycle) * Month <= now

\* C36: with the clock held fixed and renewal passes triggered again and
\* again, every active subscription with cancelAtPeriodEnd = false that is
\* overdue eventually has currentPeriodEnd > now and no pass changes it from
\* then on; each pass terminates, and each renewal advances the subscription
\* by exactly one period with exactly one grant, so that it has one grant per
\* elapsed period when it has caught up.
C36_CatchUp ==
  /\ <>[]CaughtUp
  /\ [][CaughtUp => db' = db]_vars
  /\ [][\A id \in SubscriptionIds(db) :
          LET s == db.subscriptions[id]
              t == db'.subscriptions[id]
              grants == RenewalGrants(db', id) - RenewalGrants(db, id)
          IN  /\ grants \in {0, 1}
              /\ Len(db'.creditLedger) - Len(db.creditLedger) \in {0, 1}
              /\ t.currentPeriodEnd
                   = s.currentPeriodEnd + grants * PeriodMonths(s.billingCycle) * Month
              /\ grants = 1 => s.currentPeriodEnd <= now
       ]_vars
  /\ (calls # << >>) ~> (calls = << >>)

\* a subscription that was two periods behind has caught up after three
\* renewals and three grants
C36_Witness ==
  /\ CaughtUp
  /\ RenewalGrants(db, 1) = 3
  /\ now = Month
  /\ db.subscriptions[1].currentPeriodEnd = 2 * Month
  /\ calls = << >>

\* C10: the availableCredits that getSubscriptionDetails returns is the sum of
\* all the user's ledger amounts at the moment it reads the ledger, and, when
\* the call runs one after another with the grants (confirmations, renewals)
\* and consumptions, the sum of the user's ledger amounts when it returns.
C10_AvailableCreditsIsLedgerSum ==
  [][\A i \in DOMAIN calls' :
       calls'[i].op = "getSubscriptionDetails" =>
         LET c == calls'[i]
             sum == SumAmounts(LedgerOf(db, c.userId))
         IN  /\ (i \in DOMAIN calls /\ calls[i].pc = "sum" /\ c.pc # "sum") =>
                  c.avail = sum
             /\ (Ends(i) /\ i \in DOMAIN calls) => c.out = calls[i].avail
             /\ (Ends(i) /\ i \notin DOMAIN calls) => c.out = sum
             /\ (Ends(i) /\ Sequential(i)) => c.out = sum
    ]_vars

\* a query made after a renewal grant of 2 and a consumption of 1 returned 1
C10_Witness ==
  \E i, j, k \in DOMAIN calls :
    /\ calls[i].op = "renewDueSubscriptions" /\ RenewedIds(calls[i]) # {}
    /\ calls[j].op = "consumeCredits" /\ calls[j].res = "ok"
    /\ calls[k].op = "getSubscriptionDetails" /\ calls[k].res = "ok"
    /\ calls[k].userId = calls[j].userId
    /\ calls[k].alone
    /\ calls[k].out = 1

====
